---------------------------- MODULE Spec2Model ----------------------------
(***************************************************************************)
(* Model of the accounting core of the "Gestor B3" application:            *)
(*   calcular_tudo        (src/app.py 80-135, src/app_2.py 245-346)        *)
(*   calcular_ir_completo (src/app_2.py 348-436)                           *)
(*                                                                         *)
(* Money is a Python float in the source.  The model computes with exact   *)
(* fractions [n, d] (d = 0 encodes inf / -inf / nan, which numpy produces  *)
(* on a division by an integer zero); binary rounding is not modelled.     *)
(***************************************************************************)
EXTENDS Integers, Sequences, FiniteSets, TLC

(***************************************************************************)
(* Bounds of the model and the input alphabets.                            *)
(***************************************************************************)
\* total number of rows of the table operacoes that one run reads
MaxOps == 3
\* trading days that share one 'Mês/Ano' key in the model's calendar
DiasPorMes == 2
\* total number of realizations in the log that calcular_ir_completo receives
MaxRealizacoes == 3

Revisoes == {"app", "app_2"}
Tickets == { <<"P", "E", "T", "R", "4">> }
Tipos == {"Compra", "Venda"}
Quantidades == {1, 2}
Precos == {10, 12}
\* the fee columns of a row: no fees, or one unit of each fee
Taxas == { [taxa_corretagem |-> 0, taxa_emolumentos |-> 0],
           [taxa_corretagem |-> 1, taxa_emolumentos |-> 1] }

(***************************************************************************)
(* Float arithmetic as exact fractions.                                    *)
(***************************************************************************)
Abs(x) == IF x < 0 THEN -x ELSE x

Sign(x) == IF x < 0 THEN -1 ELSE IF x > 0 THEN 1 ELSE 0

Min(a, b) == IF a <= b THEN a ELSE b

RECURSIVE GCD(_, _)
GCD(a, b) == IF b = 0 THEN a ELSE GCD(b, a % b)

\* the fraction n/d in lowest terms with d >= 0; x/0 is inf, -inf or nan
Rat(n, d) ==
    IF d = 0 THEN [n |-> Sign(n), d |-> 0]
    ELSE LET s == IF d < 0 THEN -1 ELSE 1
             g == GCD(Abs(n), Abs(d))
         IN  [n |-> (s * n) \div g, d |-> (s * d) \div g]

RInt(k) == [n |-> k, d |-> 1]

IsFinite(a) == a.d # 0

RAdd(a, b) ==
    IF a.d = 0 /\ b.d = 0
    THEN (IF a.n = b.n THEN a ELSE [n |-> 0, d |-> 0])
    ELSE Rat(a.n * b.d + b.n * a.d, a.d * b.d)

RNeg(a) == [n |-> -a.n, d |-> a.d]

RSub(a, b) == RAdd(a, RNeg(b))

RMul(a, b) == Rat(a.n * b.n, a.d * b.d)

\* a / b; a float divided by a numpy integer zero gives inf, -inf or nan
RDiv(a, b) ==
    IF b.d = 0 THEN (IF a.d = 0 \/ b.n = 0 THEN [n |-> 0, d |-> 0] ELSE RInt(0))
    ELSE IF b.n = 0 THEN Rat(a.n, 0)
    ELSE Rat(a.n * b.d * Sign(b.n), a.d * Abs(b.n))

\* a > 0 as Python evaluates it on a float (False for nan)
RPos(a) == a.n > 0

\* a <= b on finite floats
RLe(a, b) == a.n * b.d <= b.n * a.d

(***************************************************************************)
(* Rows of the table operacoes and the pandas reductions over them.        *)
(***************************************************************************)
\* the rows one (day, ticket) can hold in revision rev; app.py has no fee columns
Operacoes(r) ==
    { [ticket |-> t, tipo |-> tp, quantidade |-> q, valor |-> v,
       taxa_corretagem |-> tx.taxa_corretagem, taxa_emolumentos |-> tx.taxa_emolumentos]
      : t \in Tickets, tp \in Tipos, q \in Quantidades, v \in Precos,
        tx \in IF r = "app_2" THEN Taxas
               ELSE { [taxa_corretagem |-> 0, taxa_emolumentos |-> 0] } }

RECURSIVE SomaCampo(_, _)
\* Series.sum() of an integer column
SomaCampo(rows, campo) ==
    IF rows = <<>> THEN 0
    ELSE Head(rows)[campo] + SomaCampo(Tail(rows), campo)

\* a faulty day price: the price of the first row instead of the mean
MediaValor_Primeira(rows) == IF rows = <<>> THEN Rat(0, 0) ELSE RInt(Head(rows).valor)

\* Series.mean() of the column valor: the plain mean over the rows
MediaValor(rows) == Rat(SomaCampo(rows, "valor"), Len(rows))

Compras(rows) == SelectSeq(rows, LAMBDA r : r.tipo = "Compra")

Vendas(rows) == SelectSeq(rows, LAMBDA r : r.tipo = "Venda")

\* the rows of df_ops of one day and ticket
OpsDia(ops, data, tkt) == SelectSeq(ops, LAMBDA r : r.data = data /\ r.ticket = tkt)

\* custo_compra / custo_venda: both fee columns summed
Custo(rows) == SomaCampo(rows, "taxa_corretagem") + SomaCampo(rows, "taxa_emolumentos")

MesAno(data) == (data - 1) \div DiasPorMes + 1

IdentificarTipoAtivo(ticket) ==
    LET n == Len(ticket)
        fim == IF n >= 2 THEN <<ticket[n - 1], ticket[n]>> ELSE <<>>
    IN  IF fim = <<"1", "1">> THEN "FII"
        ELSE IF fim \in { <<"3", "4">>, <<"3", "5">>, <<"3", "9">>,
                          <<"3", "2">>, <<"3", "3">>, <<"3", "1">> } THEN "BDR"
        ELSE IF ticket = <<"B", "S", "L", "V", "3", "9">> THEN "BDR"
        ELSE "ACAO"


(***************************************************************************)
(* calcular_tudo: one iteration of the loop over (date, ticket).           *)
(***************************************************************************)
VARIABLES
    rev,                \* the revision of calcular_tudo that runs: app.py or app_2.py
    pc,                 \* "loop" while the dates are being processed, then "done"
    data,               \* the date of the last iteration (dates are 1, 2, ...)
    df_ops,             \* the rows of operacoes read so far, ORDER BY data, hora
    controle,           \* ticket -> [qtd, pm], the position ledger
    vendas_realizadas,  \* the realization log
    loc,                \* the locals of the last iteration
    df_pos,             \* the positions returned
    df_res,             \* calcular_ir_completo: the realizations of the months read so far
    mes,                \* calcular_ir_completo: the month of the last iteration (1, 2, ...)
    prejuizos,          \* calcular_ir_completo: the carried losses DT, ST_ACAO, ST_FII
    res_mensal,         \* calcular_ir_completo: the monthly summary rows
    form,               \* the last submission of the register form or of the editor
    banco,              \* investimentos.db: the tables operacoes, proventos and darfs
    backups,            \* the copies of the database in the directory backups
    cache,              \* the entry of st.cache_data for carregar_dados: <<>> or <<frames>>
    dados,              \* the frames calcular_tudo got from carregar_dados in this run
    escritas            \* the number of buttons pressed that write the disk

tudo_vars == <<rev, pc, data, df_ops, controle, vendas_realizadas, loc, df_pos>>

ir_vars == <<df_res, mes, prejuizos, res_mensal>>

cache_vars == <<banco, backups, cache, dados, escritas>>

vars == <<rev, pc, data, df_ops, controle, vendas_realizadas, loc, df_pos,
          df_res, mes, prejuizos, res_mensal, form,
          banco, backups, cache, dados, escritas>>

\* init_db on a new file: the three tables exist and are empty
BancoVazio == [operacoes |-> <<>>, proventos |-> <<>>, darfs |-> <<>>]

\* the database and the cache of carregar_dados before the first run of the script
InitCache ==
    /\ banco = BancoVazio
    /\ backups = {}
    /\ cache = <<>>
    /\ dados = BancoVazio
    /\ escritas = 0

\* no form was submitted
SemSubmissao == [via |-> "nenhum"]

\* a row of the alphabet as stored: with its date and its time of day
Linha(r, d, h) ==
    [data |-> d, hora |-> h, ticket |-> r.ticket, tipo |-> r.tipo,
     quantidade |-> r.quantidade, valor |-> r.valor,
     taxa_corretagem |-> r.taxa_corretagem, taxa_emolumentos |-> r.taxa_emolumentos]

\* controle[tkt], created empty when the ticket is new
Entrada(ctl, tkt) == IF tkt \in DOMAIN ctl THEN ctl[tkt] ELSE [qtd |-> 0, pm |-> RInt(0)]

\* a faulty split: every buy of the day counted as day-traded
QtdDT_TodaCompra(q_c, q_v) == q_c

QtdDT(q_c, q_v) == Min(q_c, q_v)

\* a faulty residual: all the buys of the day absorbed, the day-traded too
SobraCompra_Total(q_c, qtd_dt) == q_c

\* sobra_c: the buys of the day that were not day-traded
SobraCompra(q_c, qtd_dt) == q_c - qtd_dt

\* sobra_v: the sells of the day that were not day-traded
SobraVenda(q_v, qtd_dt) == q_v - qtd_dt

\* hora_venda: the time of the first sell of the day, "00:00:00" without a sell
HoraVenda(vendas_dia) == IF vendas_dia # <<>> THEN Head(vendas_dia).hora ELSE 0

\* a faulty Day Trade result: the sign of the price difference inverted
ResultadoDT_Invertido(r, compras_dia, vendas_dia, qtd_dt, q_c) ==
    RMul(RSub(MediaValor(compras_dia), MediaValor(vendas_dia)), RInt(qtd_dt))

\* the Day Trade result; app_2.py nets the fees, app.py has none
ResultadoDT(r, compras_dia, vendas_dia, qtd_dt, q_c) ==
    LET resultado_bruto ==
            RMul(RSub(MediaValor(vendas_dia), MediaValor(compras_dia)), RInt(qtd_dt))
    IN  IF r = "app" THEN resultado_bruto
        ELSE IF qtd_dt = q_c
             THEN RSub(resultado_bruto, RInt(Custo(compras_dia) + Custo(vendas_dia)))
             ELSE RSub(resultado_bruto, RInt(Custo(vendas_dia)))

VolumeVenda(qtd, vendas_dia) == RMul(RInt(qtd), MediaValor(vendas_dia))

RealizacaoDT(r, d, tkt, compras_dia, vendas_dia, qtd_dt, q_c) ==
    IF r = "app"
    THEN [Data |-> d, Ticket |-> tkt, Tipo |-> "Day Trade", Qtd |-> qtd_dt,
          Resultado |-> ResultadoDT(r, compras_dia, vendas_dia, qtd_dt, q_c),
          VolumeVenda |-> VolumeVenda(qtd_dt, vendas_dia), MesAno |-> MesAno(d)]
    ELSE [Data |-> d, Hora |-> HoraVenda(vendas_dia), Ticket |-> tkt,
          Tipo |-> "Day Trade", TipoAtivo |-> IdentificarTipoAtivo(tkt),
          Resultado |-> ResultadoDT(r, compras_dia, vendas_dia, qtd_dt, q_c),
          VolumeVenda |-> VolumeVenda(qtd_dt, vendas_dia), MesAno |-> MesAno(d)]

\* the unit cost added to the price of the absorbed buys (app_2.py only)
CustoMedioUnitario(r, custo, sobra) ==
    IF r = "app" THEN RInt(0) ELSE RDiv(RInt(custo), RInt(sobra))

\* a faulty guard: only a zero quantity is guarded in app_2.py
PrecoMedio_GuardaZero(r, novo_total, qtd) ==
    IF r = "app" THEN RDiv(novo_total, RInt(qtd))
    ELSE IF qtd # 0 THEN RDiv(novo_total, RInt(qtd)) ELSE RInt(0)

\* novo_total / qtd, guarded in app_2.py and not in app.py
PrecoMedio(r, novo_total, qtd) ==
    IF r = "app" THEN RDiv(novo_total, RInt(qtd))
    ELSE IF qtd > 0 THEN RDiv(novo_total, RInt(qtd)) ELSE RInt(0)

\* a faulty absorption: the position is revalued at the price of the day's buys
AbsorveCompra_PrecoDoDia(r, e, compras_dia, sobra_c) ==
    [qtd |-> e.qtd + sobra_c, pm |-> MediaValor(compras_dia)]

\* the residual buy of the day absorbed into the position e
AbsorveCompra(r, e, compras_dia, sobra_c) ==
    LET v_compra_m == MediaValor(compras_dia)
        custo_medio_unitario == CustoMedioUnitario(r, Custo(compras_dia), sobra_c)
        novo_total == RAdd(RMul(RInt(e.qtd), e.pm),
                           RMul(RInt(sobra_c), RAdd(v_compra_m, custo_medio_unitario)))
    IN  [qtd |-> e.qtd + sobra_c, pm |-> PrecoMedio(r, novo_total, e.qtd + sobra_c)]

\* a faulty Swing Trade result: the average cost left out
ResultadoST_SemCusto(r, vendas_dia, sobra_v, pm) ==
    RMul(MediaValor(vendas_dia), RInt(sobra_v))

\* the Swing Trade result of the residual sell against the average cost pm
ResultadoST(r, vendas_dia, sobra_v, pm) ==
    LET v_venda_m == MediaValor(vendas_dia)
        custo_medio_unitario == CustoMedioUnitario(r, Custo(vendas_dia), sobra_v)
    IN  RMul(RSub(RSub(v_venda_m, custo_medio_unitario), pm), RInt(sobra_v))

RealizacaoST(r, d, tkt, vendas_dia, sobra_v, pm) ==
    IF r = "app"
    THEN [Data |-> d, Ticket |-> tkt, Tipo |-> "Swing Trade", Qtd |-> sobra_v,
          Resultado |-> ResultadoST(r, vendas_dia, sobra_v, pm),
          VolumeVenda |-> VolumeVenda(sobra_v, vendas_dia), MesAno |-> MesAno(d)]
    ELSE [Data |-> d, Hora |-> HoraVenda(vendas_dia), Ticket |-> tkt,
          Tipo |-> "Swing Trade", TipoAtivo |-> IdentificarTipoAtivo(tkt),
          Resultado |-> ResultadoST(r, vendas_dia, sobra_v, pm),
          VolumeVenda |-> VolumeVenda(sobra_v, vendas_dia), MesAno |-> MesAno(d)]

\* a faulty release: the average cost reset when the position closes
BaixaVenda_ZeraPM(e, sobra_v) ==
    [qtd |-> e.qtd - sobra_v, pm |-> IF e.qtd - sobra_v = 0 THEN RInt(0) ELSE e.pm]

\* the residual sell released from the position: the average cost stays
BaixaVenda(e, sobra_v) == [qtd |-> e.qtd - sobra_v, pm |-> e.pm]

\* the body of the loop for one date d and ticket tkt whose rows are ops_dia
PassoTicketDia(r, ctl, loc0, ops_dia, d, tkt) ==
    LET e0 == Entrada(ctl, tkt)
        vendas_dia == Vendas(ops_dia)
        compras_dia == Compras(ops_dia)
        q_c == SomaCampo(compras_dia, "quantidade")
        q_v == SomaCampo(vendas_dia, "quantidade")
        qtd_dt == QtdDT(q_c, q_v)
        sobra_c == SobraCompra(q_c, qtd_dt)
        sobra_v == SobraVenda(q_v, qtd_dt)
        dt == IF qtd_dt > 0
              THEN <<RealizacaoDT(r, d, tkt, compras_dia, vendas_dia, qtd_dt, q_c)>>
              ELSE <<>>
        e1 == IF sobra_c > 0 THEN AbsorveCompra(r, e0, compras_dia, sobra_c) ELSE e0
        st == IF sobra_v > 0
              THEN <<RealizacaoST(r, d, tkt, vendas_dia, sobra_v, e1.pm)>>
              ELSE <<>>
        e2 == IF sobra_v > 0 THEN BaixaVenda(e1, sobra_v) ELSE e1
    IN  [controle |-> (tkt :> e2) @@ ctl,
         novas |-> dt \o st,
         loc |-> [q_c |-> q_c, q_v |-> q_v, qtd_dt |-> qtd_dt,
                  sobra_c |-> sobra_c, sobra_v |-> sobra_v,
                  custo_compra |-> Custo(compras_dia),
                  custo_venda |-> Custo(vendas_dia),
                  hora_venda |-> HoraVenda(vendas_dia),
                  v_compra_m |-> IF qtd_dt > 0 \/ sobra_c > 0
                                 THEN MediaValor(compras_dia) ELSE loc0.v_compra_m,
                  v_venda_m |-> IF qtd_dt > 0 \/ sobra_v > 0
                                THEN MediaValor(vendas_dia) ELSE loc0.v_venda_m]]

\* a faulty filter: every ticket whose quantity is not zero is listed
Posicoes_NaoNulas(r, ctl) ==
    { [Ticket |-> t, Tipo |-> IdentificarTipoAtivo(t), Quantidade |-> ctl[t].qtd,
       PrecoMedio |-> ctl[t].pm, Total |-> RMul(RInt(ctl[t].qtd), ctl[t].pm)]
      : t \in {u \in DOMAIN ctl : ctl[u].qtd # 0} }

\* df_pos: the tickets whose quantity is positive
Posicoes(r, ctl) ==
    { IF r = "app"
      THEN [Ticket |-> t, Quantidade |-> ctl[t].qtd, PrecoMedio |-> ctl[t].pm,
            Total |-> RMul(RInt(ctl[t].qtd), ctl[t].pm)]
      ELSE [Ticket |-> t, Tipo |-> IdentificarTipoAtivo(t), Quantidade |-> ctl[t].qtd,
            PrecoMedio |-> ctl[t].pm, Total |-> RMul(RInt(ctl[t].qtd), ctl[t].pm)]
      : t \in {u \in DOMAIN ctl : ctl[u].qtd > 0} }

LocInicial ==
    [q_c |-> 0, q_v |-> 0, qtd_dt |-> 0, sobra_c |-> 0, sobra_v |-> 0,
     custo_compra |-> 0, custo_venda |-> 0, hora_venda |-> 0,
     v_compra_m |-> RInt(0), v_venda_m |-> RInt(0)]

\* prejuizos as calcular_ir_completo creates it
PrejuizosIniciais == [DT |-> RInt(0), ST_ACAO |-> RInt(0), ST_FII |-> RInt(0)]

Init ==
    /\ rev \in Revisoes
    /\ pc = "loop"
    /\ data = 0
    /\ df_ops = <<>>
    /\ controle = <<>>
    /\ vendas_realizadas = <<>>
    /\ loc = LocInicial
    /\ df_pos = {}
    /\ df_res = <<>>
    /\ mes = 0
    /\ prejuizos = PrejuizosIniciais
    /\ res_mensal = <<>>
    /\ form = SemSubmissao
    /\ InitCache

\* the next date of the table and its rows, processed by the loop body
ProcessaTicketDia ==
    /\ pc = "loop"
    /\ \E tkt \in Tickets, n \in 1..(MaxOps - Len(df_ops)) :
       \E rows \in [1..n -> {o \in Operacoes(rev) : o.ticket = tkt}] :
          LET d == data + 1
              ops_dia == [i \in 1..n |-> Linha(rows[i], d, i)]
              p == PassoTicketDia(rev, controle, loc, ops_dia, d, tkt)
          IN  /\ data' = d
              /\ df_ops' = df_ops \o ops_dia
              /\ controle' = p.controle
              /\ vendas_realizadas' = vendas_realizadas \o p.novas
              /\ loc' = p.loc
    /\ UNCHANGED <<rev, pc, df_pos>>
    /\ UNCHANGED <<ir_vars, form>>
    /\ UNCHANGED cache_vars

\* the dates are exhausted (or the table is empty): the outputs are returned
Retorna ==
    /\ pc = "loop"
    /\ pc' = "done"
    /\ df_pos' = Posicoes(rev, controle)
    /\ UNCHANGED <<rev, data, df_ops, controle, vendas_realizadas, loc>>
    /\ UNCHANGED <<ir_vars, form>>
    /\ UNCHANGED cache_vars

Next == ProcessaTicketDia \/ Retorna

Spec == Init /\ [][Next]_vars


(***************************************************************************)
(* calcular_ir_completo: one iteration of the loop over the months.        *)
(***************************************************************************)
\* the realizations a month can hold: the columns calcular_ir_completo reads
Realizacoes ==
    { [Tipo |-> "Day Trade", TipoAtivo |-> "ACAO", Resultado |-> RInt(r),
       VolumeVenda |-> RInt(10000)] : r \in {-100, 50, 80} }
    \cup
    { [Tipo |-> "Day Trade", TipoAtivo |-> "FII", Resultado |-> RInt(80),
       VolumeVenda |-> RInt(10000)],
      [Tipo |-> "Day Trade", TipoAtivo |-> "BDR", Resultado |-> RInt(-100),
       VolumeVenda |-> RInt(10000)] }
    \cup
    { [Tipo |-> "Swing Trade", TipoAtivo |-> "ACAO", Resultado |-> RInt(r),
       VolumeVenda |-> RInt(v)] : r \in {-100, 80}, v \in {10000, 20001} }
    \cup
    { [Tipo |-> "Swing Trade", TipoAtivo |-> "FII", Resultado |-> RInt(r),
       VolumeVenda |-> RInt(10000)] : r \in {-100, 50, 80} }
    \cup
    { [Tipo |-> "Swing Trade", TipoAtivo |-> "BDR", Resultado |-> RInt(r),
       VolumeVenda |-> RInt(10000)] : r \in {-100, 80} }

\* a realization of the alphabet as logged: with its 'Mês/Ano' key
NoMes(v, m) ==
    [MesAno |-> m, Tipo |-> v.Tipo, TipoAtivo |-> v.TipoAtivo,
     Resultado |-> v.Resultado, VolumeVenda |-> v.VolumeVenda]

RECURSIVE SomaColuna(_, _)
\* Series.sum() of a float column
SomaColuna(rows, coluna) ==
    IF rows = <<>> THEN RInt(0)
    ELSE RAdd(Head(rows)[coluna], SomaColuna(Tail(rows), coluna))

\* df_m: the realizations of month m
DfMes(res, m) == SelectSeq(res, LAMBDA v : v.MesAno = m)

\* a faulty filter: only the day trades of equities reach the day-trade bucket
DayTrades_SoAcoes(df_m) ==
    SelectSeq(df_m, LAMBDA v : v.Tipo = "Day Trade" /\ v.TipoAtivo = "ACAO")

DayTrades(df_m) == SelectSeq(df_m, LAMBDA v : v.Tipo = "Day Trade")

\* the Swing Trade realizations of one asset class
SwingTrades(df_m, ativo) ==
    SelectSeq(df_m, LAMBDA v : v.Tipo = "Swing Trade" /\ v.TipoAtivo = ativo)

\* a faulty exemption test: a month exactly at the limit is taxed
Isento_Estrito(st_acao_volume) ==
    st_acao_volume.n * 1 < 20000 * st_acao_volume.d

\* the exemption test of the equity swing-trade bucket
Isento(st_acao_volume) == RLe(st_acao_volume, RInt(20000))

\* a faulty Day Trade bucket: the loss of a month is not carried to the next
ApuraDT_SemCompensacao(df_m, prej) ==
    LET dt_lucro == SomaColuna(DayTrades(df_m), "Resultado")
    IN  IF RPos(dt_lucro)
        THEN [lucro |-> dt_lucro, imposto |-> RMul(dt_lucro, Rat(20, 100)),
              prejuizo |-> RInt(0)]
        ELSE [lucro |-> dt_lucro, imposto |-> RInt(0), prejuizo |-> RInt(0)]

\* Day Trade: 20% of the month's result net of the carried loss
ApuraDT(df_m, prej) ==
    LET dt_lucro == SomaColuna(DayTrades(df_m), "Resultado")
        dt_lucro_tributavel == RAdd(dt_lucro, prej)
    IN  IF RPos(dt_lucro_tributavel)
        THEN [lucro |-> dt_lucro, imposto |-> RMul(dt_lucro_tributavel, Rat(20, 100)),
              prejuizo |-> RInt(0)]
        ELSE [lucro |-> dt_lucro, imposto |-> RInt(0), prejuizo |-> dt_lucro_tributavel]

\* Swing Trade of equities: exempt up to the volume limit, else 15% net of the carried loss
ApuraSTAcao(df_m, prej) ==
    LET st_acao == SwingTrades(df_m, "ACAO")
        st_acao_lucro == SomaColuna(st_acao, "Resultado")
        st_acao_volume == SomaColuna(st_acao, "VolumeVenda")
        st_acao_lucro_tributavel == RAdd(st_acao_lucro, prej)
    IN  IF Isento(st_acao_volume)
        THEN [lucro |-> st_acao_lucro, volume |-> st_acao_volume,
              imposto |-> RInt(0), prejuizo |-> prej]
        ELSE IF RPos(st_acao_lucro_tributavel)
        THEN [lucro |-> st_acao_lucro, volume |-> st_acao_volume,
              imposto |-> RMul(st_acao_lucro_tributavel, Rat(15, 100)),
              prejuizo |-> RInt(0)]
        ELSE [lucro |-> st_acao_lucro, volume |-> st_acao_volume,
              imposto |-> RInt(0), prejuizo |-> st_acao_lucro_tributavel]

\* a faulty BDR/ETF bucket: exempt up to the volume limit of the equities
ApuraSTBDR_Isento(df_m) ==
    LET st_bdr == SwingTrades(df_m, "BDR")
        st_bdr_lucro == SomaColuna(st_bdr, "Resultado")
    IN  [lucro |-> st_bdr_lucro, volume |-> SomaColuna(st_bdr, "VolumeVenda"),
         imposto |-> IF RPos(st_bdr_lucro)
                        /\ ~RLe(SomaColuna(st_bdr, "VolumeVenda"), RInt(20000))
                     THEN RMul(st_bdr_lucro, Rat(15, 100))
                     ELSE RInt(0)]

\* Swing Trade of BDR/ETF: 15% of the month's own result, no carried loss
ApuraSTBDR(df_m) ==
    LET st_bdr == SwingTrades(df_m, "BDR")
        st_bdr_lucro == SomaColuna(st_bdr, "Resultado")
    IN  [lucro |-> st_bdr_lucro, volume |-> SomaColuna(st_bdr, "VolumeVenda"),
         imposto |-> IF RPos(st_bdr_lucro) THEN RMul(st_bdr_lucro, Rat(15, 100))
                     ELSE RInt(0)]

\* a faulty FII bucket: the carried loss is kept in a month that owes tax
ApuraSTFII_MantemPrejuizo(df_m, prej) ==
    LET st_fii == SwingTrades(df_m, "FII")
        st_fii_lucro == SomaColuna(st_fii, "Resultado")
        st_fii_lucro_tributavel == RAdd(st_fii_lucro, prej)
    IN  IF RPos(st_fii_lucro_tributavel)
        THEN [lucro |-> st_fii_lucro, volume |-> SomaColuna(st_fii, "VolumeVenda"),
              imposto |-> RMul(st_fii_lucro_tributavel, Rat(20, 100)),
              prejuizo |-> prej]
        ELSE [lucro |-> st_fii_lucro, volume |-> SomaColuna(st_fii, "VolumeVenda"),
              imposto |-> RInt(0), prejuizo |-> st_fii_lucro_tributavel]

\* Swing Trade of FII: 20% of the month's result net of the carried loss
ApuraSTFII(df_m, prej) ==
    LET st_fii == SwingTrades(df_m, "FII")
        st_fii_lucro == SomaColuna(st_fii, "Resultado")
        st_fii_lucro_tributavel == RAdd(st_fii_lucro, prej)
    IN  IF RPos(st_fii_lucro_tributavel)
        THEN [lucro |-> st_fii_lucro, volume |-> SomaColuna(st_fii, "VolumeVenda"),
              imposto |-> RMul(st_fii_lucro_tributavel, Rat(20, 100)),
              prejuizo |-> RInt(0)]
        ELSE [lucro |-> st_fii_lucro, volume |-> SomaColuna(st_fii, "VolumeVenda"),
              imposto |-> RInt(0), prejuizo |-> st_fii_lucro_tributavel]

\* a faulty total that leaves the BDR/ETF tax out
TotalIR_SemBDR(dt_imposto, st_acao_imposto, st_bdr_imposto, st_fii_imposto) ==
    RAdd(RAdd(dt_imposto, st_acao_imposto), st_fii_imposto)

\* the column 'Total IR' of the summary row
TotalIR(dt_imposto, st_acao_imposto, st_bdr_imposto, st_fii_imposto) ==
    RAdd(RAdd(RAdd(dt_imposto, st_acao_imposto), st_bdr_imposto), st_fii_imposto)

\* the body of the loop for month m: the carried losses after it and its summary row
PassoMes(prej, df_m, m) ==
    LET dt == ApuraDT(df_m, prej.DT)
        acao == ApuraSTAcao(df_m, prej.ST_ACAO)
        bdr == ApuraSTBDR(df_m)
        fii == ApuraSTFII(df_m, prej.ST_FII)
    IN  [prejuizos |-> [DT |-> dt.prejuizo, ST_ACAO |-> acao.prejuizo,
                        ST_FII |-> fii.prejuizo],
         linha |-> [MesAno |-> m,
                    LucroDT |-> dt.lucro,
                    PrejDTAcum |-> dt.prejuizo,
                    ImpostoDT |-> dt.imposto,
                    LucroSTAcoes |-> acao.lucro,
                    VolumeSTAcoes |-> acao.volume,
                    Isento |-> IF Isento(acao.volume) THEN "Sim" ELSE "Não",
                    PrejSTAcoes |-> acao.prejuizo,
                    ImpostoSTAcoes |-> acao.imposto,
                    LucroSTBDR |-> bdr.lucro,
                    VolumeSTBDR |-> bdr.volume,
                    ImpostoSTBDR |-> bdr.imposto,
                    LucroSTFII |-> fii.lucro,
                    VolumeSTFII |-> fii.volume,
                    PrejSTFII |-> fii.prejuizo,
                    ImpostoSTFII |-> fii.imposto,
                    TotalIR |-> TotalIR(dt.imposto, acao.imposto, bdr.imposto,
                                        fii.imposto)]]

\* calcular_ir_completo starts on the log of app_2.py's calcular_tudo
InitIR ==
    /\ rev = "app_2"
    /\ pc = "ir"
    /\ data = 0
    /\ df_ops = <<>>
    /\ controle = <<>>
    /\ vendas_realizadas = <<>>
    /\ loc = LocInicial
    /\ df_pos = {}
    /\ df_res = <<>>
    /\ mes = 0
    /\ prejuizos = PrejuizosIniciais
    /\ res_mensal = <<>>
    /\ form = SemSubmissao
    /\ InitCache

\* the next month of the log and its realizations, processed by the loop body
ApuraMes ==
    /\ pc = "ir"
    /\ \E n \in 1..(MaxRealizacoes - Len(df_res)) :
       \E novas \in [1..n -> Realizacoes] :
          LET m == mes + 1
              res == df_res \o [i \in 1..n |-> NoMes(novas[i], m)]
              p == PassoMes(prejuizos, DfMes(res, m), m)
          IN  /\ mes' = m
              /\ df_res' = res
              /\ prejuizos' = p.prejuizos
              /\ res_mensal' = Append(res_mensal, p.linha)
    /\ UNCHANGED <<tudo_vars, form>>
    /\ UNCHANGED cache_vars

NextIR == ApuraMes

SpecIR == InitIR /\ [][NextIR]_vars

(***************************************************************************)
(* calcular_ir_completo as a function of a whole realization log.          *)
(***************************************************************************)
\* the 'Mês/Ano' keys a log can hold; month 3 has no realization
Meses == {1, 2, 4}

\* the realizations of the logs: day trades and taxed swing trades of two classes
RealizacoesLog ==
    { v \in Realizacoes :
        /\ v.Resultado \in {RInt(-100), RInt(80)}
        /\ \/ v.Tipo = "Day Trade" /\ v.TipoAtivo = "ACAO"
           \/ v.Tipo = "Swing Trade" /\ v.TipoAtivo = "ACAO" /\ v.VolumeVenda = RInt(20001)
           \/ v.Tipo = "Swing Trade" /\ v.TipoAtivo = "FII" }

\* df_res['Mês/Ano'].unique()
MesesDoLog(res) == { res[i].MesAno : i \in DOMAIN res }

RECURSIVE Ordenados_Decrescente(_)
\* a faulty order of the months: latest first
Ordenados_Decrescente(S) ==
    IF S = {} THEN <<>>
    ELSE LET m == CHOOSE x \in S : \A y \in S : y <= x
         IN  <<m>> \o Ordenados_Decrescente(S \ {m})

RECURSIVE Ordenados(_)
\* sorted(...): the keys in ascending order
Ordenados(S) ==
    IF S = {} THEN <<>>
    ELSE LET m == CHOOSE x \in S : \A y \in S : x <= y
         IN  <<m>> \o Ordenados(S \ {m})

RECURSIVE ApuraMeses(_, _, _)
\* the loop over the months: the carried losses at its end and the rows appended
ApuraMeses(res, meses, prej) ==
    IF meses = <<>> THEN [prejuizos |-> prej, linhas |-> <<>>]
    ELSE LET p == PassoMes(prej, DfMes(res, Head(meses)), Head(meses))
             resto == ApuraMeses(res, Tail(meses), p.prejuizos)
         IN  [prejuizos |-> resto.prejuizos, linhas |-> <<p.linha>> \o resto.linhas]

CalcularIRCompleto(res) ==
    ApuraMeses(res, Ordenados(MesesDoLog(res)), PrejuizosIniciais)

InitLog ==
    /\ rev = "app_2"
    /\ pc = "log"
    /\ data = 0
    /\ df_ops = <<>>
    /\ controle = <<>>
    /\ vendas_realizadas = <<>>
    /\ loc = LocInicial
    /\ df_pos = {}
    /\ df_res = <<>>
    /\ mes = 0
    /\ prejuizos = PrejuizosIniciais
    /\ res_mensal = <<>>
    /\ form = SemSubmissao
    /\ InitCache

\* calcular_tudo appends a realization to the log; its dates never go back
RegistraRealizacao ==
    /\ pc = "log"
    /\ Len(df_res) < MaxRealizacoes
    /\ \E v \in RealizacoesLog, m \in Meses :
          /\ m >= mes
          /\ mes' = m
          /\ df_res' = Append(df_res, NoMes(v, m))
    /\ UNCHANGED <<tudo_vars, prejuizos, res_mensal, form>>
    /\ UNCHANGED cache_vars

\* calcular_tudo hands the log, when it is not empty, to calcular_ir_completo
CalculaIR ==
    /\ pc = "log"
    /\ df_res # <<>>
    /\ pc' = "done"
    /\ LET saida == CalcularIRCompleto(df_res)
       IN  /\ prejuizos' = saida.prejuizos
           /\ res_mensal' = saida.linhas
    /\ UNCHANGED <<rev, data, df_ops, controle, vendas_realizadas, loc, df_pos, df_res, mes,
                   form>>
    /\ UNCHANGED cache_vars

NextLog == RegistraRealizacao \/ CalculaIR

SpecLog == InitLog /\ [][NextLog]_vars

(***************************************************************************)
(* calcular_tudo (app_2.py) as a function of the whole table operacoes.    *)
(***************************************************************************)
\* two instruments: an equity and a FII
TicketsTabela == Tickets \cup { <<"M", "X", "R", "F", "1", "1">> }

\* the (data, hora) pairs of the rows: three times on day 1, then days 2 and 3
Instantes ==
    { [data |-> 1, hora |-> 1], [data |-> 1, hora |-> 2], [data |-> 1, hora |-> 3],
      [data |-> 2, hora |-> 1], [data |-> 3, hora |-> 1] }

\* the rows of the table, without their date and time: no fees; the equity
\* has buys at two prices
OperacoesTabela ==
    { [ticket |-> o[1], tipo |-> o[2], quantidade |-> o[3], valor |-> o[4],
       taxa_corretagem |-> 0, taxa_emolumentos |-> 0]
      : o \in ( { <<t, "Compra", 2, 10>> : t \in TicketsTabela }
                \cup { <<t, "Venda", 1, 12>> : t \in TicketsTabela }
                \cup { <<t, "Compra", 1, 12>> : t \in Tickets } ) }

\* ORDER BY data ASC, hora ASC: a does not come after b
NaoDepois(a, b) == a.data < b.data \/ (a.data = b.data /\ a.hora <= b.hora)

RECURSIVE SortValuesHora(_)
\* sort_values('hora'): rows of equal hora keep their order
SortValuesHora(rows) ==
    IF rows = <<>> THEN <<>>
    ELSE LET i == CHOOSE k \in 1..Len(rows) :
                     /\ \A j \in 1..Len(rows) : rows[k].hora <= rows[j].hora
                     /\ \A j \in 1..(k - 1) : rows[j].hora > rows[k].hora
         IN  <<rows[i]>> \o SortValuesHora(SubSeq(rows, 1, i - 1)
                                           \o SubSeq(rows, i + 1, Len(rows)))

\* df_dia: the rows of the date d, by hora
DfDia(ops, d) == SortValuesHora(SelectSeq(ops, LAMBDA r : r.data = d))

RECURSIVE Unique(_)
\* df_dia['ticket'].unique(): the tickets in the order of their first row
Unique(rows) ==
    IF rows = <<>> THEN <<>>
    ELSE <<Head(rows).ticket>>
         \o Unique(SelectSeq(Tail(rows), LAMBDA r : r.ticket # Head(rows).ticket))

RECURSIVE ProcessaTickets(_, _, _, _, _)
\* the inner loop: the tickets tkts of the date d, one after the other
ProcessaTickets(r, st, df_dia, d, tkts) ==
    IF tkts = <<>> THEN st
    ELSE LET tkt == Head(tkts)
             ops_dia == SelectSeq(df_dia, LAMBDA o : o.ticket = tkt)
             p == PassoTicketDia(r, st.controle, st.loc, ops_dia, d, tkt)
         IN  ProcessaTickets(r, [controle |-> p.controle,
                                 vendas_realizadas |-> st.vendas_realizadas \o p.novas,
                                 loc |-> p.loc],
                             df_dia, d, Tail(tkts))

RECURSIVE ProcessaDatas(_, _, _, _)
\* the outer loop: the dates datas, one after the other
ProcessaDatas(r, st, ops, datas) ==
    IF datas = <<>> THEN st
    ELSE LET df_dia == DfDia(ops, Head(datas))
         IN  ProcessaDatas(r, ProcessaTickets(r, st, df_dia, Head(datas), Unique(df_dia)),
                           ops, Tail(datas))

\* calcular_tudo on the table ops: the ledger, the log and the positions
CalcularTudo(r, ops) ==
    LET fim == ProcessaDatas(r, [controle |-> <<>>, vendas_realizadas |-> <<>>,
                                 loc |-> LocInicial],
                             ops, Ordenados({ ops[i].data : i \in DOMAIN ops }))
    IN  [controle |-> fim.controle, vendas_realizadas |-> fim.vendas_realizadas,
         loc |-> fim.loc, df_pos |-> Posicoes(r, fim.controle)]

InitTabela ==
    /\ rev = "app_2"
    /\ pc = "tabela"
    /\ data = 0
    /\ df_ops = <<>>
    /\ controle = <<>>
    /\ vendas_realizadas = <<>>
    /\ loc = LocInicial
    /\ df_pos = {}
    /\ df_res = <<>>
    /\ mes = 0
    /\ prejuizos = PrejuizosIniciais
    /\ res_mensal = <<>>
    /\ form = SemSubmissao
    /\ InitCache

\* one more row of the table as carregar_dados reads it: by date, then by time
LeOperacao ==
    /\ pc = "tabela"
    /\ Len(df_ops) < MaxOps
    /\ \E o \in OperacoesTabela, t \in Instantes :
          /\ df_ops # <<>> => NaoDepois(df_ops[Len(df_ops)], t)
          /\ df_ops' = Append(df_ops, Linha(o, t.data, t.hora))
    /\ UNCHANGED <<rev, pc, data, controle, vendas_realizadas, loc, df_pos>>
    /\ UNCHANGED <<ir_vars, form>>
    /\ UNCHANGED cache_vars

\* calcular_tudo runs on the table read
CalculaTudo ==
    /\ pc = "tabela"
    /\ pc' = "done"
    /\ data' = IF df_ops = <<>> THEN 0 ELSE df_ops[Len(df_ops)].data
    /\ LET saida == CalcularTudo(rev, df_ops)
       IN  /\ controle' = saida.controle
           /\ vendas_realizadas' = saida.vendas_realizadas
           /\ loc' = saida.loc
           /\ df_pos' = saida.df_pos
    /\ UNCHANGED <<rev, df_ops>>
    /\ UNCHANGED <<ir_vars, form>>
    /\ UNCHANGED cache_vars

NextTabela == LeOperacao \/ CalculaTudo

SpecTabela == InitTabela /\ [][NextTabela]_vars

(***************************************************************************)
(* The validation functions and the write paths of the table operacoes.    *)
(***************************************************************************)
Letras ==
    { "A", "B", "C", "D", "E", "F", "G", "H", "I", "J", "K", "L", "M",
      "N", "O", "P", "Q", "R", "S", "T", "U", "V", "W", "X", "Y", "Z" }

Digitos == { "0", "1", "2", "3", "4", "5", "6", "7", "8", "9" }

\* str.upper() on the characters the texts of the model are made of
Upper(txt) ==
    [i \in DOMAIN txt |->
        CASE txt[i] = "p" -> "P" [] txt[i] = "e" -> "E"
          [] txt[i] = "t" -> "T" [] txt[i] = "r" -> "R"
          [] OTHER -> txt[i]]

RECURSIVE Strip(_)
\* str.strip(): the blanks at both ends removed
Strip(txt) ==
    IF txt = <<>> THEN <<>>
    ELSE IF Head(txt) = " " THEN Strip(Tail(txt))
    ELSE IF txt[Len(txt)] = " " THEN Strip(SubSeq(txt, 1, Len(txt) - 1))
    ELSE txt

\* re.match(r'^[A-Z]{4}[0-9]{1,2}$', tkt)
CasaPadrao(tkt) ==
    /\ Len(tkt) \in {5, 6}
    /\ \A i \in 1..4 : tkt[i] \in Letras
    /\ \A i \in 5..Len(tkt) : tkt[i] \in Digitos

\* app.py: validar_ticket(tkt)[0]
ValidarTicket(tkt) ==
    IF tkt = <<>> \/ Strip(tkt) = <<>> THEN FALSE
    ELSE CasaPadrao(Strip(Upper(tkt)))

\* datetime.now().date(); dates are counted from today
Hoje == 0

\* app_2.py: validar_operacao, the list of the reasons found
ValidarOperacao(ticket, tipo, quantidade, valor, dia) ==
    (IF ticket = <<>> \/ Len(ticket) < 4 THEN <<"Ticket inválido">> ELSE <<>>)
    \o (IF tipo \notin {"Compra", "Venda"} THEN <<"Tipo deve ser Compra ou Venda">>
        ELSE <<>>)
    \o (IF quantidade <= 0 THEN <<"Quantidade deve ser positiva">> ELSE <<>>)
    \o (IF valor <= 0 THEN <<"Preço deve ser positivo">> ELSE <<>>)
    \o (IF dia > Hoje THEN <<"Data não pode ser futura">> ELSE <<>>)

\* a faulty check: a sell of exactly the available quantity is flagged too
VerificarVendaDescoberto_Estrito(ticket, quantidade, ops) ==
    LET ops_ticket == SelectSeq(ops, LAMBDA r : r.ticket = ticket)
        qtd_disponivel == SomaCampo(Compras(ops_ticket), "quantidade")
                          - SomaCampo(Vendas(ops_ticket), "quantidade")
    IN  IF quantidade >= qtd_disponivel
        THEN [descoberto |-> TRUE, qtd_disponivel |-> qtd_disponivel,
              qtd_faltante |-> quantidade - qtd_disponivel]
        ELSE [descoberto |-> FALSE]

\* app_2.py: verificar_venda_descoberto
VerificarVendaDescoberto(ticket, quantidade, ops) ==
    IF ops = <<>>
    THEN [descoberto |-> TRUE, qtd_disponivel |-> 0, qtd_faltante |-> quantidade]
    ELSE LET ops_ticket == SelectSeq(ops, LAMBDA r : r.ticket = ticket)
             compras == SomaCampo(Compras(ops_ticket), "quantidade")
             vendas == SomaCampo(Vendas(ops_ticket), "quantidade")
             qtd_disponivel == compras - vendas
         IN  IF quantidade > qtd_disponivel
             THEN [descoberto |-> TRUE, qtd_disponivel |-> qtd_disponivel,
                   qtd_faltante |-> quantidade - qtd_disponivel]
             ELSE [descoberto |-> FALSE]

\* what the user types as new ticket, or picks, in a register form
TextoPETR4 == <<" ", "p", "e", "t", "r", "4">>

\* the submissions of "form_operacao" (app_2.py): its widgets keep
\* quantidade >= 1 and valor >= 0.01 and offer the two sides
Submissoes ==
    { [texto |-> TextoPETR4, tipo |-> tp, quantidade |-> q, valor |-> 10, dia |-> Hoje]
      : tp \in Tipos, q \in Quantidades }
    \cup
    { [texto |-> <<"P", "E", "T", "R">>, tipo |-> "Compra", quantidade |-> 1,
       valor |-> 10, dia |-> Hoje],
      [texto |-> <<"P", "E", "T">>, tipo |-> "Compra", quantidade |-> 1,
       valor |-> 10, dia |-> Hoje],
      [texto |-> TextoPETR4, tipo |-> "Compra", quantidade |-> 1,
       valor |-> 10, dia |-> Hoje + 1] }

\* the submissions of "reg_form" (app.py): the ticket is picked from a list that
\* starts with "", quantidade >= 1 and valor >= 0.0
SubmissoesApp ==
    { [texto |-> Strip(Upper(TextoPETR4)), tipo |-> tp, quantidade |-> q, valor |-> 10,
       dia |-> Hoje] : tp \in Tipos, q \in Quantidades }
    \cup
    { [texto |-> <<>>, tipo |-> "Compra", quantidade |-> 1, valor |-> 10, dia |-> Hoje],
      [texto |-> Strip(Upper(TextoPETR4)), tipo |-> "Compra", quantidade |-> 1,
       valor |-> 0, dia |-> Hoje] }

\* the row a form inserts
LinhaForm(ticket, s) ==
    [data |-> s.dia, hora |-> 1, ticket |-> ticket, tipo |-> s.tipo,
     quantidade |-> s.quantidade, valor |-> s.valor,
     taxa_corretagem |-> 0, taxa_emolumentos |-> 0]

\* what the user can turn a row of the editor into
Alteracoes(linha) ==
    { [linha EXCEPT !.quantidade = 0],
      [linha EXCEPT !.ticket = <<>>],
      [linha EXCEPT !.quantidade = IF @ = 1 THEN 2 ELSE 1] }

\* the rows the user can add in the editor
LinhasNovas ==
    LET boa == LinhaForm(Strip(Upper(TextoPETR4)),
                         [tipo |-> "Compra", quantidade |-> 1, valor |-> 10, dia |-> Hoje])
    IN  { boa, [boa EXCEPT !.ticket = <<>>] }

\* the frame ops without its i-th row
SemLinha(f, i) == SubSeq(f, 1, i - 1) \o SubSeq(f, i + 1, Len(f))

\* the frames st.data_editor can return for the table ops: one row altered, or at
\* most one row deleted and at most one row added; id 0 stands for the NaN id of
\* a new row
Edicoes(ops) ==
    LET base == [i \in DOMAIN ops |-> [id |-> i, linha |-> ops[i]]]
        apagadas == {base} \cup { SemLinha(base, i) : i \in DOMAIN ops }
    IN  apagadas
        \cup UNION { { [base EXCEPT ![j].linha = l] : l \in Alteracoes(base[j].linha) }
                     : j \in DOMAIN base }
        \cup UNION { { Append(f, [id |-> 0, linha |-> l])
                       : l \in IF Len(f) < MaxOps THEN LinhasNovas ELSE {} }
                     : f \in apagadas }

InitEscrita ==
    /\ rev \in Revisoes
    /\ pc = "ui"
    /\ data = 0
    /\ df_ops = <<>>
    /\ controle = <<>>
    /\ vendas_realizadas = <<>>
    /\ loc = LocInicial
    /\ df_pos = {}
    /\ df_res = <<>>
    /\ mes = 0
    /\ prejuizos = PrejuizosIniciais
    /\ res_mensal = <<>>
    /\ form = SemSubmissao
    /\ InitCache

\* app_2.py, "Salvar Operação": validate, check a sell against the position, insert
SalvarOperacao ==
    /\ pc = "ui" /\ rev = "app_2"
    /\ Len(df_ops) < MaxOps
    /\ \E s \in Submissoes :
          LET ticket_final == Strip(Upper(s.texto))
              erros == ValidarOperacao(ticket_final, s.tipo, s.quantidade, s.valor, s.dia)
              check == IF erros = <<>> /\ s.tipo = "Venda"
                       THEN <<VerificarVendaDescoberto(ticket_final, s.quantidade, df_ops)>>
                       ELSE <<>>
          IN  /\ form' = [via |-> "form_operacao", entrada |-> s, erros |-> erros,
                          check |-> check]
              /\ df_ops' = IF erros # <<>> THEN df_ops
                           ELSE IF check # <<>> /\ check[1].descoberto THEN df_ops
                           ELSE Append(df_ops, LinhaForm(ticket_final, s))
    /\ UNCHANGED <<rev, pc, data, controle, vendas_realizadas, loc, df_pos, ir_vars>>
    /\ UNCHANGED cache_vars

\* app_2.py, "Salvar Alterações": the table is emptied and the edited frame written
SalvarAlteracoes ==
    /\ pc = "ui" /\ rev = "app_2"
    /\ df_ops # <<>>
    /\ \E edited_ops \in Edicoes(df_ops) :
          /\ form' = [via |-> "editor_ops", entrada |-> edited_ops]
          /\ df_ops' = [i \in DOMAIN edited_ops |-> edited_ops[i].linha]
    /\ UNCHANGED <<rev, pc, data, controle, vendas_realizadas, loc, df_pos, ir_vars>>
    /\ UNCHANGED cache_vars

\* app.py, "Salvar Registro": only the ticket is validated
SalvarRegistro ==
    /\ pc = "ui" /\ rev = "app"
    /\ Len(df_ops) < MaxOps
    /\ \E s \in SubmissoesApp :
          /\ form' = [via |-> "reg_form", entrada |-> s,
                      erros |-> IF ValidarTicket(s.texto) THEN <<>> ELSE <<"Ticket inválido">>]
          /\ df_ops' = IF ValidarTicket(s.texto)
                       THEN Append(df_ops, LinhaForm(Strip(Upper(s.texto)), s))
                       ELSE df_ops
    /\ UNCHANGED <<rev, pc, data, controle, vendas_realizadas, loc, df_pos, ir_vars>>
    /\ UNCHANGED cache_vars

\* the table after atualizar_banco_pelo_editor(df_editado, df_original): the rows
\* whose id is gone are deleted, the rows whose ticket is valid updated or inserted
AtualizarBancoPeloEditor(df_editado, df_original) ==
    LET ids_atuais == { df_editado[i].id : i \in DOMAIN df_editado } \ {0}
        editada(k) == df_editado[CHOOSE i \in DOMAIN df_editado : df_editado[i].id = k]
        gravada(l) == [l EXCEPT !.ticket = Strip(Upper(l.ticket))]
        mantidas == [k \in DOMAIN df_original |->
                        IF k \notin ids_atuais THEN <<>>
                        ELSE IF ValidarTicket(editada(k).linha.ticket)
                             THEN <<gravada(editada(k).linha)>>
                             ELSE <<df_original[k]>>]
        inseridas == SelectSeq(df_editado,
                               LAMBDA e : e.id = 0 /\ ValidarTicket(e.linha.ticket))
        junta[k \in 0..Len(df_original)] ==
            IF k = 0 THEN <<>> ELSE junta[k - 1] \o mantidas[k]
    IN  junta[Len(df_original)] \o [i \in DOMAIN inseridas |-> gravada(inseridas[i].linha)]

\* app.py, "Confirmar Alterações"
ConfirmarAlteracoes ==
    /\ pc = "ui" /\ rev = "app"
    /\ \E df_edit \in Edicoes(df_ops) :
          /\ form' = [via |-> "data_editor", entrada |-> df_edit]
          /\ df_ops' = AtualizarBancoPeloEditor(df_edit, df_ops)
    /\ UNCHANGED <<rev, pc, data, controle, vendas_realizadas, loc, df_pos, ir_vars>>
    /\ UNCHANGED cache_vars

NextEscrita ==
    SalvarOperacao \/ SalvarAlteracoes \/ SalvarRegistro \/ ConfirmarAlteracoes

SpecEscrita == InitEscrita /\ [][NextEscrita]_vars

(***************************************************************************)
(* Properties of calcular_tudo.                                            *)
(***************************************************************************)
\* the ticket and the rows of the date processed last
UltTicket == df_ops[Len(df_ops)].ticket

UltOpsDia == OpsDia(df_ops, data, UltTicket)

OpsTicket(ops, tkt) == SelectSeq(ops, LAMBDA r : r.ticket = tkt)

RECURSIVE SomaProduto(_)
\* sum of quantidade x valor over the rows
SomaProduto(rows) ==
    IF rows = <<>> THEN 0
    ELSE Head(rows).quantidade * Head(rows).valor + SomaProduto(Tail(rows))

\* the realizations of the log for one date, ticket and kind
Realizadas(log, d, tkt, tipo) ==
    SelectSeq(log, LAMBDA v : v.Data = d /\ v.Ticket = tkt /\ v.Tipo = tipo)

\* the entries the last step appended to the log (for use in an action formula)
Novas == SubSeq(vendas_realizadas', Len(vendas_realizadas) + 1, Len(vendas_realizadas'))

\* the step is one iteration of the loop
Iteracao == data' = data + 1

\* the rows of the date the step processes
OpsDiaNovo == OpsDia(df_ops', data', df_ops'[Len(df_ops')].ticket)

(* C1: for every (day, instrument) processed, with Qb and Qs the day's     *)
(* bought and sold totals: the day-trade quantity is min(Qb, Qs), the      *)
(* residual buy is Qb - Qdt and the residual sell is Qs - Qdt; a Day Trade *)
(* is emitted exactly when Qdt > 0 and a Swing Trade exactly when the      *)
(* residual sell is positive, and the ledger quantity is what the          *)
(* residuals of all the days add up to (all buys minus all sells).         *)
C1_SplitConservation ==
    data > 0 =>
        LET Qb == SomaCampo(Compras(UltOpsDia), "quantidade")
            Qs == SomaCampo(Vendas(UltOpsDia), "quantidade")
            Qdt == IF Qb <= Qs THEN Qb ELSE Qs
            dts == Realizadas(vendas_realizadas, data, UltTicket, "Day Trade")
            sts == Realizadas(vendas_realizadas, data, UltTicket, "Swing Trade")
            todas == OpsTicket(df_ops, UltTicket)
        IN  /\ loc.qtd_dt = Qdt
            /\ loc.sobra_c = Qb - Qdt /\ loc.sobra_v = Qs - Qdt
            /\ loc.qtd_dt + loc.sobra_c = Qb /\ loc.qtd_dt + loc.sobra_v = Qs
            /\ Len(dts) = (IF Qdt > 0 THEN 1 ELSE 0)
            /\ Len(sts) = (IF Qs - Qdt > 0 THEN 1 ELSE 0)
            /\ rev = "app" => /\ \A i \in 1..Len(dts) : dts[i].Qtd = Qdt
                              /\ \A i \in 1..Len(sts) : sts[i].Qtd = Qs - Qdt
            /\ controle[UltTicket].qtd =
                   SomaCampo(Compras(todas), "quantidade")
                   - SomaCampo(Vendas(todas), "quantidade")

\* a day with buys and more sells than buys: a day trade and a residual sell
C1_Witness == data > 0 /\ loc.qtd_dt > 0 /\ loc.sobra_v > 0

(* C2: the day's aggregate buy price used by calcular_tudo is the          *)
(* quantity-weighted average of the day's buy prices, and the aggregate    *)
(* sell price the quantity-weighted average of the day's sell prices.      *)
C2_PrecoPonderado ==
    data > 0 =>
        /\ loc.q_c > 0 =>
             RMul(loc.v_compra_m, RInt(loc.q_c)) = RInt(SomaProduto(Compras(UltOpsDia)))
        /\ loc.q_v > 0 =>
             RMul(loc.v_venda_m, RInt(loc.q_v)) = RInt(SomaProduto(Vendas(UltOpsDia)))

(* C3: after buys only, the average cost of the ledger is                  *)
(* (sum of quantity x price + fees) / (sum of quantity), however the buys  *)
(* are grouped into days.                                                  *)
C3_MediaSoCompras ==
    (data > 0 /\ Vendas(df_ops) = <<>>) =>
        LET todas == OpsTicket(df_ops, UltTicket)
        IN  RMul(controle[UltTicket].pm, RInt(SomaCampo(todas, "quantidade")))
              = RInt(SomaProduto(todas) + Custo(todas))

(* C4: on a day whose bought total equals its sold total Q > 0, without    *)
(* fees, exactly one realization is emitted for the day: a Day Trade with  *)
(* result (Ps - Pb) x Q and sell volume Q x Ps, Pb and Ps being the day's  *)
(* aggregate prices; the position (quantity, average cost) stays as it was.*)
C4_DiaDayTrade ==
    [][ (Iteracao /\ loc'.q_c = loc'.q_v /\ loc'.q_c > 0 /\ Custo(OpsDiaNovo) = 0) =>
          LET tkt == df_ops'[Len(df_ops')].ticket
          IN  /\ Len(Novas) = 1
              /\ Novas[1].Tipo = "Day Trade"
              /\ Novas[1].Data = data' /\ Novas[1].Ticket = tkt
              /\ Novas[1].Resultado =
                     RMul(RSub(loc'.v_venda_m, loc'.v_compra_m), RInt(loc'.q_c))
              /\ Novas[1].VolumeVenda = RMul(RInt(loc'.q_c), loc'.v_venda_m)
              /\ Realizadas(vendas_realizadas', data', tkt, "Swing Trade") = <<>>
              /\ Entrada(controle', tkt) = Entrada(controle, tkt) ]_vars

\* a day trade of equal totals on a day that starts with an open position
C4_Witness ==
    /\ data > 1 /\ loc.q_c = loc.q_v /\ loc.q_c > 0 /\ Custo(UltOpsDia) = 0
    /\ controle[UltTicket].qtd > 0
    /\ Len(Realizadas(vendas_realizadas, data, UltTicket, "Day Trade")) = 1

(* C5: a buy of q units at price p on one day and a sell of q units at    *)
(* price s on a later day, with no other transaction and no fees, yield    *)
(* exactly one realization: a Swing Trade with result (s - p) x q and sell *)
(* volume s x q; the ledger quantity ends at 0 and the instrument is not   *)
(* in the positions returned.                                              *)
C5_CompraDepoisVenda ==
    ( /\ Len(df_ops) = 2
      /\ df_ops[1].tipo = "Compra" /\ df_ops[2].tipo = "Venda"
      /\ df_ops[1].data < df_ops[2].data
      /\ df_ops[1].quantidade = df_ops[2].quantidade
      /\ Custo(df_ops) = 0 ) =>
        LET q == df_ops[1].quantidade
            p == df_ops[1].valor
            v == df_ops[2].valor
        IN  /\ Len(vendas_realizadas) = 1
            /\ vendas_realizadas[1].Tipo = "Swing Trade"
            /\ vendas_realizadas[1].Data = df_ops[2].data
            /\ vendas_realizadas[1].Resultado = RInt((v - p) * q)
            /\ vendas_realizadas[1].VolumeVenda = RInt(v * q)
            /\ controle[UltTicket].qtd = 0
            /\ pc = "done" => \A linha \in df_pos : linha.Ticket # UltTicket

\* the two-day scenario run to its end, sold at a profit
C5_Witness ==
    /\ pc = "done" /\ Len(df_ops) = 2 /\ Custo(df_ops) = 0
    /\ df_ops[1].tipo = "Compra" /\ df_ops[2].tipo = "Venda"
    /\ df_ops[1].data < df_ops[2].data
    /\ df_ops[1].quantidade = df_ops[2].quantidade
    /\ df_ops[1].valor < df_ops[2].valor
    /\ Len(vendas_realizadas) = 1

(* C6: whenever the sells of a day exceed its day-trade quantity, the      *)
(* Swing Trade result (no fees) is (Ps - c) x (Qs - Qdt), c being the      *)
(* average cost of the ledger as it stood before the iteration: the same   *)
(* day's buys never change it.                                             *)
C6_CustoInicioDoDia ==
    [][ (Iteracao /\ loc'.sobra_v > 0 /\ Custo(OpsDiaNovo) = 0) =>
          LET tkt == df_ops'[Len(df_ops')].ticket
              c == Entrada(controle, tkt).pm
              sts == Realizadas(vendas_realizadas', data', tkt, "Swing Trade")
          IN  /\ Len(sts) = 1
              /\ sts[1].Resultado =
                     RMul(RSub(loc'.v_venda_m, c), RInt(loc'.q_v - loc'.qtd_dt)) ]_vars

\* a day with buys and more sells, on a position whose cost differs from the buys' price
C6_Witness ==
    /\ data > 1 /\ loc.qtd_dt > 0 /\ loc.sobra_v > 0 /\ Custo(UltOpsDia) = 0
    /\ IsFinite(controle[UltTicket].pm)
    /\ controle[UltTicket].pm # RInt(0)
    /\ controle[UltTicket].pm # loc.v_compra_m
    /\ Len(Realizadas(vendas_realizadas, data, UltTicket, "Swing Trade")) = 1

(* C7: a residual sell of r units lowers the ledger quantity by exactly r  *)
(* and leaves the average cost as it was; no day whose buys are all        *)
(* day-traded changes the average cost, whatever it sells.                 *)
C7_VendaMantemPM ==
    [][ Iteracao =>
          LET tkt == df_ops'[Len(df_ops')].ticket
              antes == Entrada(controle, tkt)
              depois == Entrada(controle', tkt)
          IN  /\ loc'.sobra_v > 0 =>
                   /\ depois.qtd = antes.qtd - loc'.sobra_v
                   /\ depois.pm = antes.pm
              /\ (loc'.q_v > 0 /\ loc'.sobra_c = 0) => depois.pm = antes.pm ]_vars

\* a partial sell: part of an open position sold, the rest kept
C7_Witness ==
    /\ data > 1 /\ loc.sobra_v > 0
    /\ controle[UltTicket].qtd > 0
    /\ controle[UltTicket].pm # RInt(0)

\* (q x pm + r x (Pb + F/r)) / (q + r)
MediaPonderada(q, pm, r, Pb, F) ==
    RDiv(RAdd(RMul(RInt(q), pm), RMul(RInt(r), RAdd(Pb, RDiv(RInt(F), RInt(r))))),
         RInt(q + r))

(* C8 as stated: in app_2.py, absorbing a residual buy of r > 0 units at   *)
(* the day's price Pb with the day's buy fees F into a position (q, pm)    *)
(* sets the quantity to q + r and the average cost to                      *)
(* (q x pm + r x (Pb + F/r)) / (q + r) whenever q + r is not 0.            *)
C8_Original ==
    [][ (Iteracao /\ rev = "app_2" /\ loc'.sobra_c > 0) =>
          LET tkt == df_ops'[Len(df_ops')].ticket
              antes == Entrada(controle, tkt)
              depois == Entrada(controle', tkt)
              r == loc'.sobra_c
          IN  antes.qtd + r # 0 =>
                /\ depois.qtd = antes.qtd + r
                /\ depois.pm = MediaPonderada(antes.qtd, antes.pm, r,
                                              loc'.v_compra_m, loc'.custo_compra) ]_vars

(* C8 amended: the quantity becomes q + r; the average cost becomes        *)
(* (q x pm + r x (Pb + F/r)) / (q + r) when q + r > 0 and 0 when           *)
(* q + r <= 0 (a position still short or just closed by the buy).          *)
C8_AbsorveCompra ==
    [][ (Iteracao /\ rev = "app_2" /\ loc'.sobra_c > 0) =>
          LET tkt == df_ops'[Len(df_ops')].ticket
              antes == Entrada(controle, tkt)
              depois == Entrada(controle', tkt)
              r == loc'.sobra_c
          IN  /\ depois.qtd = antes.qtd + r
              /\ depois.pm = IF antes.qtd + r > 0
                             THEN MediaPonderada(antes.qtd, antes.pm, r,
                                                 loc'.v_compra_m, loc'.custo_compra)
                             ELSE RInt(0) ]_vars

\* a buy with fees absorbed into a short position that it turns long
C8_Witness ==
    /\ rev = "app_2" /\ data > 1
    /\ loc.sobra_c > 0 /\ loc.custo_compra > 0
    /\ controle[UltTicket].qtd > 0
    /\ controle[UltTicket].qtd < loc.sobra_c

(***************************************************************************)
(* Properties of calcular_ir_completo.                                     *)
(***************************************************************************)
\* the loss carried into row i of res_mensal, read from the row before it
Anterior(i, campo) == IF i = 1 THEN RInt(0) ELSE res_mensal[i - 1][campo]

\* the carry-forward rule at rate aliq/100 for gross result lucro and carried loss prej
RegraImposto(lucro, prej, aliq) ==
    IF RAdd(lucro, prej).n > 0 THEN RMul(RAdd(lucro, prej), Rat(aliq, 100)) ELSE RInt(0)

RegraPrejuizo(lucro, prej) ==
    IF RAdd(lucro, prej).n > 0 THEN RInt(0) ELSE RAdd(lucro, prej)

(* C9: for the day-trade bucket and for the FII swing-trade bucket, both   *)
(* at 20%, month after month: taxable = the month's gross result + the     *)
(* loss carried in; if taxable > 0 the tax is 20% of it and the carried    *)
(* loss becomes 0, otherwise the tax is 0 and the carried loss becomes     *)
(* taxable.                                                                *)
C9_CompensacaoDTeFII ==
    \A i \in 1..Len(res_mensal) :
        LET linha == res_mensal[i]
            df_m == DfMes(df_res, linha.MesAno)
            dt_bruto == SomaColuna(DayTrades(df_m), "Resultado")
            fii_bruto == SomaColuna(SwingTrades(df_m, "FII"), "Resultado")
        IN  /\ linha.MesAno = i
            /\ linha.LucroDT = dt_bruto
            /\ linha.ImpostoDT = RegraImposto(dt_bruto, Anterior(i, "PrejDTAcum"), 20)
            /\ linha.PrejDTAcum = RegraPrejuizo(dt_bruto, Anterior(i, "PrejDTAcum"))
            /\ linha.LucroSTFII = fii_bruto
            /\ linha.ImpostoSTFII = RegraImposto(fii_bruto, Anterior(i, "PrejSTFII"), 20)
            /\ linha.PrejSTFII = RegraPrejuizo(fii_bruto, Anterior(i, "PrejSTFII"))
            /\ i = Len(res_mensal) =>
                   /\ prejuizos.DT = linha.PrejDTAcum
                   /\ prejuizos.ST_FII = linha.PrejSTFII

\* day-trade results -100, 50, 80 in three months: taxes 0, 0, 6 and losses -100, -50, 0
C9_Witness ==
    /\ Len(res_mensal) = 3
    /\ res_mensal[1].LucroDT = RInt(-100) /\ res_mensal[2].LucroDT = RInt(50)
    /\ res_mensal[3].LucroDT = RInt(80)
    /\ res_mensal[1].ImpostoDT = RInt(0) /\ res_mensal[2].ImpostoDT = RInt(0)
    /\ res_mensal[3].ImpostoDT = RInt(6)
    /\ res_mensal[1].PrejDTAcum = RInt(-100) /\ res_mensal[2].PrejDTAcum = RInt(-50)
    /\ res_mensal[3].PrejDTAcum = RInt(0)

(* C10: a month whose equity swing-trade sell volume is at most 20000 owes *)
(* no equity swing-trade tax, whatever its result; a month whose volume    *)
(* exceeds 20000 owes 15% of the month's whole equity swing-trade result   *)
(* net of the carried equity-swing loss, when that net amount is positive. *)
C10_IsencaoAcoes ==
    \A i \in 1..Len(res_mensal) :
        LET linha == res_mensal[i]
            st_acao == SwingTrades(DfMes(df_res, linha.MesAno), "ACAO")
            volume == SomaColuna(st_acao, "VolumeVenda")
            bruto == SomaColuna(st_acao, "Resultado")
        IN  /\ linha.VolumeSTAcoes = volume
            /\ linha.LucroSTAcoes = bruto
            /\ volume.n <= 20000 * volume.d =>
                   /\ linha.ImpostoSTAcoes = RInt(0)
                   /\ linha.Isento = "Sim"
            /\ volume.n > 20000 * volume.d =>
                   /\ linha.ImpostoSTAcoes =
                          RegraImposto(bruto, Anterior(i, "PrejSTAcoes"), 15)
                   /\ linha.Isento = "Não"

\* a profitable month exactly at the limit, untaxed, and a month above it, taxed
C10_Witness ==
    \E i, j \in 1..Len(res_mensal) :
        /\ res_mensal[i].VolumeSTAcoes = RInt(20000)
        /\ res_mensal[i].LucroSTAcoes.n > 0
        /\ res_mensal[i].ImpostoSTAcoes = RInt(0)
        /\ res_mensal[j].VolumeSTAcoes = RInt(20001)
        /\ res_mensal[j].ImpostoSTAcoes = RInt(12)

(* C11: in the equity swing-trade bucket, whenever a month's gross result  *)
(* plus the loss carried in is not positive, the loss carried out of the   *)
(* month equals that sum, also in a month whose sell volume is at or below *)
(* the exemption limit.                                                    *)
C11_PrejuizoMesIsento ==
    \A i \in 1..Len(res_mensal) :
        LET linha == res_mensal[i]
            st_acao == SwingTrades(DfMes(df_res, linha.MesAno), "ACAO")
            soma == RAdd(SomaColuna(st_acao, "Resultado"), Anterior(i, "PrejSTAcoes"))
        IN  soma.n <= 0 => linha.PrejSTAcoes = soma

(* C12: in every monthly summary row, 'Total IR' is the sum of the        *)
(* month's day-trade tax, equity swing-trade tax, BDR/ETF swing-trade tax  *)
(* and FII swing-trade tax.                                                *)
C12_TotalIR ==
    \A i \in 1..Len(res_mensal) :
        res_mensal[i].TotalIR =
            RAdd(res_mensal[i].ImpostoDT,
                 RAdd(res_mensal[i].ImpostoSTAcoes,
                      RAdd(res_mensal[i].ImpostoSTBDR, res_mensal[i].ImpostoSTFII)))

\* a month that owes tax in three buckets, BDR/ETF among them: 16 + 12 + 12
C12_Witness ==
    \E i \in 1..Len(res_mensal) :
        /\ res_mensal[i].ImpostoDT = RInt(16) /\ res_mensal[i].ImpostoSTAcoes = RInt(12)
        /\ res_mensal[i].ImpostoSTBDR = RInt(12)
        /\ res_mensal[i].TotalIR = RInt(40)

\* the rows of the summary for the months up to m
LinhasAte(linhas, m) == SelectSeq(linhas, LAMBDA l : l.MesAno <= m)

\* the entries of the log for the months up to m
LogAte(res, m) == SelectSeq(res, LAMBDA v : v.MesAno <= m)

(* C13: the summary has one row per month present in the log, in          *)
(* ascending month order, and its rows for the months up to m are those    *)
(* computed from the entries of the months up to m alone, whatever the log *)
(* holds for later months.                                                 *)
C13_DobraPorMes ==
    pc = "done" =>
        /\ Len(res_mensal) = Cardinality(MesesDoLog(df_res))
        /\ { res_mensal[i].MesAno : i \in DOMAIN res_mensal } = MesesDoLog(df_res)
        /\ \A i \in 1..(Len(res_mensal) - 1) :
               res_mensal[i].MesAno < res_mensal[i + 1].MesAno
        /\ \A m \in Meses :
               LinhasAte(res_mensal, m) =
                   ApuraMeses(LogAte(df_res, m), Ordenados(MesesDoLog(LogAte(df_res, m))),
                              PrejuizosIniciais).linhas

\* a loss of month 1 offsets the gain of month 2, and the log goes on to month 4
C13_Witness ==
    /\ pc = "done" /\ Len(res_mensal) = 3
    /\ res_mensal[1].PrejDTAcum = RInt(-100)
    /\ res_mensal[2].LucroDT = RInt(80) /\ res_mensal[2].ImpostoDT = RInt(0)
    /\ res_mensal[3].MesAno = 4 /\ res_mensal[3].LucroDT = RInt(80)
    /\ res_mensal[3].ImpostoDT = RInt(12)

(* C14: the realization log is in chronological order: its entries are    *)
(* non-decreasing by date, entries of one date are non-decreasing by time  *)
(* stamp, and the time stamp of an entry is the time of the earliest sell  *)
(* of its instrument on its day.                                           *)
C14_LogCronologico ==
    pc = "done" =>
        /\ \A i \in 1..Len(vendas_realizadas) :
               LET v == vendas_realizadas[i]
                   vendas_dia == Vendas(OpsDia(df_ops, v.Data, v.Ticket))
               IN  /\ vendas_dia # <<>>
                   /\ \A k \in 1..Len(vendas_dia) : v.Hora <= vendas_dia[k].hora
                   /\ \E k \in 1..Len(vendas_dia) : v.Hora = vendas_dia[k].hora
        /\ \A i, j \in 1..Len(vendas_realizadas) :
               i < j =>
                   /\ vendas_realizadas[i].Data <= vendas_realizadas[j].Data
                   /\ vendas_realizadas[i].Data = vendas_realizadas[j].Data =>
                          vendas_realizadas[i].Hora <= vendas_realizadas[j].Hora

\* the ledger quantity of ticket t that the table amounts to: buys minus sells
SaldoTabela(t) ==
    SomaCampo(Compras(OpsTicket(df_ops, t)), "quantidade")
    - SomaCampo(Vendas(OpsTicket(df_ops, t)), "quantidade")

(* C15: the positions returned list exactly the instruments whose ledger  *)
(* quantity after all the days is greater than 0, one row each, with       *)
(* Total = quantity x average cost; an instrument whose quantity is 0 or   *)
(* negative is not listed.                                                 *)
C15_PosicoesPositivas ==
    pc = "done" =>
        /\ { l.Ticket : l \in df_pos } = { t \in TicketsTabela : SaldoTabela(t) > 0 }
        /\ Cardinality(df_pos) = Cardinality({ t \in TicketsTabela : SaldoTabela(t) > 0 })
        /\ \A l \in df_pos :
               /\ l.Quantidade = SaldoTabela(l.Ticket)
               /\ l.Quantidade = controle[l.Ticket].qtd
               /\ l.PrecoMedio = controle[l.Ticket].pm
               /\ l.Total = RMul(RInt(l.Quantidade), l.PrecoMedio)

\* one instrument held and listed, the other sold short and not listed
C15_Witness ==
    /\ pc = "done"
    /\ Cardinality(df_pos) = 1
    /\ \E l \in df_pos : l.Quantidade = 2 /\ l.Total = RInt(20)
    /\ \E t \in DOMAIN controle : controle[t].qtd < 0

\* the permutations of the rows of ops that keep each row's date and ticket
PermutacoesNoDia(ops) ==
    { f \in [DOMAIN ops -> DOMAIN ops] :
        /\ \A i, j \in DOMAIN ops : i # j => f[i] # f[j]
        /\ \A i \in DOMAIN ops : /\ ops[f[i]].data = ops[i].data
                                 /\ ops[f[i]].ticket = ops[i].ticket
        /\ \E i \in DOMAIN ops : f[i] # i }

\* the table with its rows stored in the order f
Reordenada(ops, f) == [i \in DOMAIN ops |-> ops[f[i]]]

\* the table with the times of day of its rows exchanged by f
Reagendada(ops, f) == [i \in DOMAIN ops |-> [ops[i] EXCEPT !.hora = ops[f[i]].hora]]

\* a realization without its time stamp
SemHora(v) ==
    [Data |-> v.Data, Ticket |-> v.Ticket, Tipo |-> v.Tipo, TipoAtivo |-> v.TipoAtivo,
     Resultado |-> v.Resultado, VolumeVenda |-> v.VolumeVenda, MesAno |-> v.MesAno]

\* what calcular_tudo returns for the table ops: ledger, positions and the log's entries
Saida(ops) ==
    LET t == CalcularTudo("app_2", ops)
    IN  [controle |-> t.controle, df_pos |-> t.df_pos,
         n |-> Len(t.vendas_realizadas),
         realizacoes |-> { t.vendas_realizadas[i] : i \in DOMAIN t.vendas_realizadas }]

\* the same, the time stamps of the realizations left out
SaidaSemHora(ops) ==
    LET t == Saida(ops)
    IN  [controle |-> t.controle, df_pos |-> t.df_pos, n |-> t.n,
         realizacoes |-> { SemHora(v) : v \in t.realizacoes }]

(* C16 as stated: the positions and the realizations (kind, result,        *)
(* volume, time stamp) are the same for every permutation of the same-day  *)
(* rows of an instrument and for every permutation of their times of day.  *)
C16_Original ==
    pc = "done" =>
        \A f \in PermutacoesNoDia(df_ops) :
            /\ Saida(Reordenada(df_ops, f)) = Saida(df_ops)
            /\ Saida(Reagendada(df_ops, f)) = Saida(df_ops)

(* C16 amended: the quantities, the average costs, the positions and the   *)
(* kind, result and volume of the realizations are the same for every      *)
(* permutation of the same-day rows of an instrument and of their times of *)
(* day; the time stamps too are the same when only the stored order        *)
(* changes.                                                                *)
C16_OrdemNoDia ==
    pc = "done" =>
        \A f \in PermutacoesNoDia(df_ops) :
            /\ Saida(Reordenada(df_ops, f)) = Saida(df_ops)
            /\ SaidaSemHora(Reagendada(df_ops, f)) = SaidaSemHora(df_ops)

\* a day with a buy at 10 and, later, a buy at 12 and a sell of one instrument
C16_Witness ==
    /\ pc = "done" /\ Len(df_ops) = 3
    /\ \A i \in 1..3 : df_ops[i].data = 1 /\ df_ops[i].ticket \in Tickets
    /\ df_ops[1].tipo = "Compra" /\ df_ops[1].valor = 10 /\ df_ops[1].hora = 1
    /\ df_ops[2].tipo = "Compra" /\ df_ops[2].valor = 12 /\ df_ops[2].hora = 2
    /\ df_ops[3].tipo = "Venda" /\ df_ops[3].hora = 3
    /\ Len(vendas_realizadas) = 1 /\ vendas_realizadas[1].Hora = 3

\* the table with the dates d1 and d2 exchanged
TrocaDatas(ops, d1, d2) ==
    [i \in DOMAIN ops |->
        [ops[i] EXCEPT !.data = IF @ = d1 THEN d2 ELSE IF @ = d2 THEN d1 ELSE @]]

\* the rows of the table up to the date d
TabelaAte(ops, d) == SelectSeq(ops, LAMBDA r : r.data <= d)

\* one instrument bought 2 @ 10 on day 1, sold 1 @ 12 on day 2 and 1 @ 12 on day 3
CompraVendaVenda(ops, t) ==
    /\ Len(OpsTicket(ops, t)) = 3
    /\ \A i \in 1..3 : OpsTicket(ops, t)[i].data = i
    /\ OpsTicket(ops, t)[1].tipo = "Compra" /\ OpsTicket(ops, t)[1].quantidade = 2
    /\ OpsTicket(ops, t)[2].tipo = "Venda" /\ OpsTicket(ops, t)[3].tipo = "Venda"

(* C17: the engine is not order-invariant across days: for an instrument  *)
(* bought 2 @ 10 on day 1 and sold 1 @ 12 on each of days 2 and 3,         *)
(* exchanging the dates of days 1 and 2 changes the average cost after     *)
(* those two days (10 becomes 20) and the result of the realization of     *)
(* day 3 (2 becomes -8).                                                   *)
C17_OrdemDosDias ==
    \A t \in TicketsTabela :
        (pc = "done" /\ CompraVendaVenda(df_ops, t)) =>
            LET trocada == TrocaDatas(df_ops, 1, 2)
                antes == CalcularTudo("app_2", TabelaAte(df_ops, 2)).controle[t]
                depois == CalcularTudo("app_2", TabelaAte(trocada, 2)).controle[t]
                dia3(log) == SelectSeq(log, LAMBDA v : v.Data = 3 /\ v.Ticket = t)
                fim == dia3(CalcularTudo("app_2", trocada).vendas_realizadas)
            IN  /\ antes.qtd = depois.qtd
                /\ antes.pm = RInt(10) /\ depois.pm = RInt(20)
                /\ Len(dia3(vendas_realizadas)) = 1 /\ Len(fim) = 1
                /\ dia3(vendas_realizadas)[1].Resultado = RInt(2)
                /\ fim[1].Resultado = RInt(-8)

\* the three days processed: the position closed with a gain on each sell
C17_Witness ==
    /\ pc = "done" /\ Len(df_ops) = 3
    /\ \E t \in TicketsTabela :
          /\ CompraVendaVenda(df_ops, t)
          /\ controle[t].qtd = 0 /\ controle[t].pm = RInt(10)
    /\ Len(vendas_realizadas) = 2
    /\ vendas_realizadas[2].Resultado = RInt(2)

(***************************************************************************)
(* Properties of the validation gate and of the write paths.               *)
(***************************************************************************)
\* the validation rules: ticket pattern after normalization, side, quantity, price, date
RegrasValem(ticket, tipo, quantidade, valor, dia) ==
    /\ CasaPadrao(Strip(Upper(ticket)))
    /\ tipo \in {"Compra", "Venda"}
    /\ quantidade > 0
    /\ valor > 0
    /\ dia <= Hoje

\* the records of a submission that fail the rules
Reprovados(f) ==
    IF f.via \in {"form_operacao", "reg_form"}
    THEN IF RegrasValem(f.entrada.texto, f.entrada.tipo, f.entrada.quantidade,
                        f.entrada.valor, f.entrada.dia)
         THEN {} ELSE {f.entrada}
    ELSE IF f.via \in {"editor_ops", "data_editor"}
    THEN { f.entrada[i].linha : i \in { k \in DOMAIN f.entrada :
              ~RegrasValem(f.entrada[k].linha.ticket, f.entrada[k].linha.tipo,
                           f.entrada[k].linha.quantidade, f.entrada[k].linha.valor,
                           f.entrada[k].linha.data) } }
    ELSE {}

(* C18: validar_operacao returns an empty list of reasons exactly when all *)
(* the rules hold: the ticket, uppercased and trimmed, is 4 letters and 1  *)
(* or 2 digits, the side is Compra or Venda, quantity > 0, price > 0 and   *)
(* the date is not in the future.                                          *)
C18_ValidarOperacao ==
    form.via = "form_operacao" =>
        (form.erros = <<>>) = (Reprovados(form) = {})

(* C19: a submission with a record that fails validation changes nothing   *)
(* in the table, on the register forms and on the editor saves, and no     *)
(* record that fails the rules is ever stored.                             *)
C19_SemEscritaParcial ==
    [][ /\ Reprovados(form') # {} => df_ops' = df_ops
        /\ \A i \in DOMAIN df_ops' :
               RegrasValem(df_ops'[i].ticket, df_ops'[i].tipo, df_ops'[i].quantidade,
                           df_ops'[i].valor, df_ops'[i].data) ]_vars

(* C20: for a Sell of n units that passed validation, the register form of *)
(* app_2.py flags it as short exactly when n exceeds the stored bought     *)
(* minus sold quantity of the instrument, then reports available = bought  *)
(* - sold and shortfall = n - available, and leaves the table as it was; a *)
(* Sell that is not flagged is inserted.                                   *)
C20_VendaDescoberto ==
    [][ (form'.via = "form_operacao" /\ form'.entrada.tipo = "Venda"
         /\ form'.erros = <<>>) =>
          LET tkt == Strip(Upper(form'.entrada.texto))
              n == form'.entrada.quantidade
              comprado == SomaCampo(Compras(OpsTicket(df_ops, tkt)), "quantidade")
              vendido == SomaCampo(Vendas(OpsTicket(df_ops, tkt)), "quantidade")
          IN  /\ Len(form'.check) = 1
              /\ form'.check[1].descoberto = (n > comprado - vendido)
              /\ form'.check[1].descoberto =>
                     /\ form'.check[1].qtd_disponivel = comprado - vendido
                     /\ form'.check[1].qtd_faltante = n - (comprado - vendido)
                     /\ df_ops = <<>> => /\ form'.check[1].qtd_disponivel = 0
                                         /\ form'.check[1].qtd_faltante = n
                     /\ df_ops' = df_ops
              /\ ~form'.check[1].descoberto =>
                     df_ops' = Append(df_ops, LinhaForm(tkt, form'.entrada)) ]_vars

\* a Sell of 2 blocked on a position of 1: available 1, shortfall 1
C20_Witness ==
    /\ form.via = "form_operacao" /\ form.entrada.tipo = "Venda" /\ form.erros = <<>>
    /\ form.entrada.quantidade = 2
    /\ form.check = <<[descoberto |-> TRUE, qtd_disponivel |-> 1, qtd_faltante |-> 1]>>
    /\ df_ops # <<>>
    /\ \A i \in DOMAIN df_ops : df_ops[i].tipo = "Compra"

(***************************************************************************)
(* Further properties of calcular_ir_completo.                             *)
(***************************************************************************)
(* C22: every realization counts in exactly one bucket of its month: a Day *)
(* Trade of any asset class in the day-trade bucket only, a Swing Trade in *)
(* the swing bucket of its asset class only; the four gross results of a   *)
(* month add up to the month's total realized result.                      *)
C22_UmBaldePorRealizacao ==
    \A i \in 1..Len(res_mensal) :
        LET linha == res_mensal[i]
            df_m == DfMes(df_res, linha.MesAno)
            de(tipo, ativos) ==
                SelectSeq(df_m, LAMBDA v : v.Tipo = tipo /\ v.TipoAtivo \in ativos)
        IN  /\ linha.LucroDT =
                   SomaColuna(de("Day Trade", {"ACAO", "FII", "BDR"}), "Resultado")
            /\ linha.LucroSTAcoes = SomaColuna(de("Swing Trade", {"ACAO"}), "Resultado")
            /\ linha.LucroSTFII = SomaColuna(de("Swing Trade", {"FII"}), "Resultado")
            /\ linha.LucroSTBDR = SomaColuna(de("Swing Trade", {"BDR"}), "Resultado")
            /\ RAdd(RAdd(linha.LucroDT, linha.LucroSTAcoes),
                    RAdd(linha.LucroSTFII, linha.LucroSTBDR))
                 = SomaColuna(df_m, "Resultado")

\* a month with a day trade of a FII, a swing trade of a FII and one of a BDR
C22_Witness ==
    \E i \in 1..Len(res_mensal) :
        LET df_m == DfMes(df_res, res_mensal[i].MesAno)
        IN  /\ \E k \in 1..Len(df_m) : df_m[k].Tipo = "Day Trade" /\ df_m[k].TipoAtivo = "FII"
            /\ res_mensal[i].LucroDT = RInt(80)
            /\ res_mensal[i].LucroSTFII = RInt(50)
            /\ res_mensal[i].LucroSTBDR = RInt(-100)

(* C25: the BDR/ETF swing-trade tax of a month is 15% of the month's own   *)
(* BDR swing-trade gross result when that is positive and 0 otherwise,     *)
(* whatever the other months held and whatever the month's sell volume.    *)
C25_ImpostoBDR ==
    \A i \in 1..Len(res_mensal) :
        LET st_bdr == SwingTrades(DfMes(df_res, res_mensal[i].MesAno), "BDR")
            bruto == SomaColuna(st_bdr, "Resultado")
        IN  res_mensal[i].ImpostoSTBDR =
                IF bruto.n > 0 THEN RMul(bruto, Rat(15, 100)) ELSE RInt(0)

\* a BDR loss of 100 in one month, then a BDR gain of 80 taxed in full: 12
C25_Witness ==
    /\ Len(res_mensal) >= 2
    /\ res_mensal[1].LucroSTBDR = RInt(-100) /\ res_mensal[1].ImpostoSTBDR = RInt(0)
    /\ res_mensal[2].LucroSTBDR = RInt(80) /\ res_mensal[2].ImpostoSTBDR = RInt(12)
    /\ res_mensal[2].VolumeSTBDR = RInt(10000)

(* C28: in every monthly summary row each bucket's tax is >= 0, each       *)
(* carried loss (day trade, equity swing, FII swing) is <= 0, and a bucket *)
(* with carry-forward that owes tax in a month ends it with carried loss 0.*)
C28_SinaisDoResumo ==
    \A i \in 1..Len(res_mensal) :
        LET linha == res_mensal[i]
        IN  /\ linha.ImpostoDT.n >= 0 /\ linha.ImpostoSTAcoes.n >= 0
            /\ linha.ImpostoSTBDR.n >= 0 /\ linha.ImpostoSTFII.n >= 0
            /\ linha.TotalIR.n >= 0
            /\ linha.PrejDTAcum.n <= 0 /\ linha.PrejSTAcoes.n <= 0
            /\ linha.PrejSTFII.n <= 0
            /\ linha.ImpostoDT.n > 0 => linha.PrejDTAcum = RInt(0)
            /\ linha.ImpostoSTAcoes.n > 0 => linha.PrejSTAcoes = RInt(0)
            /\ linha.ImpostoSTFII.n > 0 => linha.PrejSTFII = RInt(0)

\* FII swing results -100, 80, 80: the loss shrinks to -20 and the third month owes 12
C28_Witness ==
    /\ Len(res_mensal) = 3
    /\ res_mensal[1].PrejSTFII = RInt(-100)
    /\ res_mensal[2].PrejSTFII = RInt(-20) /\ res_mensal[2].ImpostoSTFII = RInt(0)
    /\ res_mensal[3].PrejSTFII = RInt(0) /\ res_mensal[3].ImpostoSTFII = RInt(12)

(***************************************************************************)
(* Further properties of the loop of calcular_tudo.                        *)
(***************************************************************************)
(* C23: once the ledger quantity of an instrument is back at exactly 0,    *)
(* the average cost the next absorbed buy produces is that buy's own cost  *)
(* per unit (the day's buy price plus the fees per unit), whatever the     *)
(* earlier transactions were.                                              *)
C23_RecomecoDoZero ==
    [][ (Iteracao /\ data > 0 /\ loc'.sobra_c > 0
         /\ Entrada(controle, df_ops'[Len(df_ops')].ticket).qtd = 0) =>
          Entrada(controle', df_ops'[Len(df_ops')].ticket).pm =
              RAdd(loc'.v_compra_m,
                   CustoMedioUnitario(rev, loc'.custo_compra, loc'.sobra_c)) ]_vars

(* C24: in both revisions the update of the average cost never divides by  *)
(* a zero quantity: when absorbing a residual buy brings the quantity to   *)
(* 0, the average cost is 0.                                               *)
C24_SemDivisaoPorZero ==
    [][ (Iteracao /\ loc'.sobra_c > 0
         /\ Entrada(controle', df_ops'[Len(df_ops')].ticket).qtd = 0) =>
          Entrada(controle', df_ops'[Len(df_ops')].ticket).pm = RInt(0) ]_vars

(* C27: for every (day, instrument) of calcular_tudo in app_2.py the fees  *)
(* are charged exactly once: the fee taken off the Day Trade result plus   *)
(* the fee taken off the Swing Trade result plus the fee added to the cost *)
(* basis by the absorbed residual buy equals the sum of the fees of the    *)
(* day's transactions, whatever the relation of Qb and Qs.  (Stated here   *)
(* for the days that start with a quantity >= 0.)                          *)
C27_TaxasUmaVez ==
    [][ (Iteracao /\ rev = "app_2"
         /\ Entrada(controle, df_ops'[Len(df_ops')].ticket).qtd >= 0) =>
          LET tkt == df_ops'[Len(df_ops')].ticket
              antes == Entrada(controle, tkt)
              depois == Entrada(controle', tkt)
              dts == Realizadas(vendas_realizadas', data', tkt, "Day Trade")
              sts == Realizadas(vendas_realizadas', data', tkt, "Swing Trade")
              taxa_dt ==
                  IF dts = <<>> THEN RInt(0)
                  ELSE RSub(RMul(RSub(loc'.v_venda_m, loc'.v_compra_m), RInt(loc'.qtd_dt)),
                            dts[1].Resultado)
              taxa_st ==
                  IF sts = <<>> THEN RInt(0)
                  ELSE RSub(RMul(RSub(loc'.v_venda_m, antes.pm), RInt(loc'.sobra_v)),
                            sts[1].Resultado)
              taxa_pm ==
                  IF loc'.sobra_c = 0 THEN RInt(0)
                  ELSE RSub(RMul(RInt(depois.qtd), depois.pm),
                            RAdd(RMul(RInt(antes.qtd), antes.pm),
                                 RMul(RInt(loc'.sobra_c), loc'.v_compra_m)))
          IN  RAdd(RAdd(taxa_dt, taxa_st), taxa_pm) = RInt(Custo(OpsDiaNovo)) ]_vars

(***************************************************************************)
(* The page "Resultados & IR" of app.py: the exemption monitor of the      *)
(* current month and the column 'Imposto Est.' of the history table.       *)
(***************************************************************************)
LIMITE_ISENCAO == 20000

MesesPainel == {1, 2}

\* the realizations calcular_tudo of app.py can log, per month
RealizacoesApp ==
    { [MesAno |-> m, Tipo |-> tp, Resultado |-> RInt(res), VolumeVenda |-> RInt(vol)]
      : m \in MesesPainel, tp \in {"Day Trade", "Swing Trade"}, res \in {-100, 80},
        vol \in {10000, 10001} }

\* vendas_st_mes / vendas_st_total_mes: the Swing Trade sell volume of month m
VendasSTMes(res, m) ==
    SomaColuna(SelectSeq(res, LAMBDA v : v.MesAno = m /\ v.Tipo = "Swing Trade"),
               "VolumeVenda")

\* the monitor shows the error "Limite de R$ 20k ultrapassado"
LimiteUltrapassado(vendas_st_mes) == RLe(RInt(LIMITE_ISENCAO), vendas_st_mes)

\* calc_ir(row): the estimated tax of one row of the history
CalcIR(res, row) ==
    IF row.Tipo = "Day Trade"
    THEN IF RPos(row.Resultado) THEN RMul(row.Resultado, Rat(20, 100)) ELSE RInt(0)
    ELSE LET vendas_st_total_mes == VendasSTMes(res, row.MesAno)
         IN  IF ~RLe(vendas_st_total_mes, RInt(LIMITE_ISENCAO)) /\ RPos(row.Resultado)
             THEN RMul(row.Resultado, Rat(15, 100))
             ELSE RInt(0)

InitPainel ==
    /\ rev = "app"
    /\ pc = "painel"
    /\ data = 0
    /\ df_ops = <<>>
    /\ controle = <<>>
    /\ vendas_realizadas = <<>>
    /\ loc = LocInicial
    /\ df_pos = {}
    /\ df_res = <<>>
    /\ mes = 0
    /\ prejuizos = PrejuizosIniciais
    /\ res_mensal = <<>>
    /\ form = SemSubmissao
    /\ InitCache

\* calcular_tudo logs one more realization; the dates of the log never go back
RegistraVenda ==
    /\ pc = "painel"
    /\ Len(df_res) < MaxRealizacoes
    /\ \E v \in RealizacoesApp :
          /\ IF df_res = <<>> THEN TRUE ELSE v.MesAno >= df_res[Len(df_res)].MesAno
          /\ df_res' = Append(df_res, v)
    /\ UNCHANGED <<tudo_vars, mes, prejuizos, res_mensal, form>>
    /\ UNCHANGED cache_vars

\* the page is rendered in the month mes_atual of the clock
ExibeResultados ==
    /\ pc = "painel"
    /\ df_res # <<>>
    /\ pc' = "done"
    /\ \E mes_atual \in MesesPainel :
          LET vendas_st_mes == VendasSTMes(df_res, mes_atual)
          IN  /\ mes' = mes_atual
              /\ form' = [via |-> "resultados",
                          vendas_st_mes |-> vendas_st_mes,
                          limite_ultrapassado |-> LimiteUltrapassado(vendas_st_mes),
                          imposto_est |-> [i \in DOMAIN df_res |-> CalcIR(df_res, df_res[i])]]
    /\ UNCHANGED <<rev, data, df_ops, controle, vendas_realizadas, loc, df_pos, df_res,
                   prejuizos, res_mensal>>
    /\ UNCHANGED cache_vars

NextPainel == RegistraVenda \/ ExibeResultados

SpecPainel == InitPainel /\ [][NextPainel]_vars

(* C30: in app.py, for the current month with Swing Trade sell volume V,   *)
(* the exemption monitor reports the limit as exceeded exactly when        *)
(* calc_ir applies the 15% tax to the positive Swing Trade results of that *)
(* month; the two agree for every V, V = 20000 included.                   *)
C30_MonitorIgualCalcIR ==
    form.via = "resultados" =>
        \A i \in DOMAIN df_res :
            (df_res[i].MesAno = mes /\ df_res[i].Tipo = "Swing Trade"
             /\ df_res[i].Resultado.n > 0) =>
                (form.limite_ultrapassado
                   <=> form.imposto_est[i] = RMul(df_res[i].Resultado, Rat(15, 100)))

(***************************************************************************)
(* The DARF of app_2.py: gerar_darf_pdf prints the document of a month of  *)
(* the summary and salvar_darf_bd records it in the table darfs.           *)
(***************************************************************************)
TiposDarf == {"CONSOLIDADO", "DAY_TRADE", "SWING_ACAO", "SWING_FII"}

\* gains of the four buckets, taxed in the month they are made
RealizacoesDarf ==
    { v \in Realizacoes :
        /\ v.Resultado \in {RInt(50), RInt(80)}
        /\ \/ v.Tipo = "Day Trade" /\ v.TipoAtivo = "ACAO" /\ v.Resultado = RInt(50)
           \/ v.Tipo = "Swing Trade" /\ v.TipoAtivo = "ACAO" /\ v.VolumeVenda = RInt(20001)
           \/ v.Tipo = "Swing Trade" /\ v.TipoAtivo = "BDR"
           \/ v.Tipo = "Swing Trade" /\ v.TipoAtivo = "FII" /\ v.Resultado = RInt(50) }

\* f'{x:.2f}' of an amount x >= 0: the amount rounded to cents, in cents
Centavos(x) == (200 * x.n + x.d) \div (2 * x.d)

\* the value of one line of the table of the document, added to the total when > 0
ParcelaDarf(tipo_imposto, tipos, valor) ==
    IF tipo_imposto \in tipos /\ RPos(valor) THEN valor ELSE RInt(0)

\* gerar_darf_pdf: the total accumulated over the lines of the table
TotalDarf(df_ir_mes, tipo_imposto) ==
    RAdd(RAdd(ParcelaDarf(tipo_imposto, {"CONSOLIDADO", "DAY_TRADE"}, df_ir_mes.ImpostoDT),
              ParcelaDarf(tipo_imposto, {"CONSOLIDADO", "SWING_ACAO"},
                          df_ir_mes.ImpostoSTAcoes)),
         ParcelaDarf(tipo_imposto, {"CONSOLIDADO", "SWING_FII"}, df_ir_mes.ImpostoSTFII))

\* salvar_darf_bd: the row inserted into the table darfs
RegistroDarf(mes_ano, df_ir_mes) ==
    [mes_ano |-> mes_ano,
     valor_total |-> df_ir_mes.TotalIR,
     dt_imposto |-> df_ir_mes.ImpostoDT,
     st_acao_imposto |-> df_ir_mes.ImpostoSTAcoes,
     st_fii_imposto |-> df_ir_mes.ImpostoSTFII]

\* calcular_tudo logs a gain; the dates of the log never go back
RegistraGanho ==
    /\ pc = "log"
    /\ Len(df_res) < MaxRealizacoes
    /\ \E v \in RealizacoesDarf, m \in Meses :
          /\ m >= mes
          /\ mes' = m
          /\ df_res' = Append(df_res, NoMes(v, m))
    /\ UNCHANGED <<tudo_vars, prejuizos, res_mensal, form>>
    /\ UNCHANGED cache_vars

\* the button "Gerar PDF da DARF" for a month of the summary and a kind of document
GerarDarf ==
    /\ pc = "done"
    /\ pc' = "darf"
    /\ \E i \in DOMAIN res_mensal, tipo_darf \in TiposDarf, reportlab \in BOOLEAN :
          LET df_ir_mes == res_mensal[i]
          IN  form' = IF reportlab
                      THEN [via |-> "gerar_darf", mes_ano |-> df_ir_mes.MesAno,
                            tipo |-> tipo_darf,
                            total |-> Centavos(TotalDarf(df_ir_mes, tipo_darf)),
                            darfs |-> <<RegistroDarf(df_ir_mes.MesAno, df_ir_mes)>>]
                      ELSE [via |-> "gerar_darf", mes_ano |-> df_ir_mes.MesAno,
                            tipo |-> tipo_darf, total |-> -1, darfs |-> <<>>]
    /\ UNCHANGED <<rev, data, df_ops, controle, vendas_realizadas, loc, df_pos>>
    /\ UNCHANGED ir_vars
    /\ UNCHANGED cache_vars

NextDarf == RegistraGanho \/ CalculaIR \/ GerarDarf

SpecDarf == InitLog /\ [][NextDarf]_vars

(* C29: for a DARF of kind CONSOLIDADO the total gerar_darf_pdf prints is  *)
(* the 'Total IR' of the month, which is also the valor_total that         *)
(* salvar_darf_bd records, whatever the taxes of the buckets are.          *)
C29_TotalDaDarf ==
    (form.via = "gerar_darf" /\ form.tipo = "CONSOLIDADO" /\ form.darfs # <<>>) =>
        \A i \in DOMAIN res_mensal :
            res_mensal[i].MesAno = form.mes_ano =>
                /\ form.darfs[1].valor_total = res_mensal[i].TotalIR
                /\ form.total = Centavos(res_mensal[i].TotalIR)

(***************************************************************************)
(* The cache of carregar_dados in app_2.py.  Every interaction runs the    *)
(* script from the top: calcular_tudo loads the frames through the cache,  *)
(* then the handler of the page acts; a handler that writes the database   *)
(* ends in st.rerun(), or the script ends and the next interaction runs it *)
(* again.  The rows of the tables are abstract values.                     *)
(***************************************************************************)
MaxEscritas == 3

LinhasOperacoes == {1, 2}

\* carregar_dados under st.cache_data: the cached frames, or the tables read and cached
CarregarDados(c, b) ==
    IF c # <<>> THEN [retorno |-> c[1], cache |-> c]
    ELSE [retorno |-> b, cache |-> <<b>>]

\* a handler that leaves the entry of the cache in place
CarregarDadosClear_Omitido == cache

\* carregar_dados.clear()
CarregarDadosClear == <<>>

\* what st.data_editor (num_rows="dynamic") can return for the frame ops:
\* a row removed, a row altered, a row added, or the frame as it is
EdicoesCache(ops) ==
    { e \in UNION { [1..n -> LinhasOperacoes] : n \in 0..(Len(ops) + 1) } :
        \/ e = ops
        \/ \E i \in 1..Len(ops) :
              e = [j \in 1..(Len(ops) - 1) |-> IF j < i THEN ops[j] ELSE ops[j + 1]]
        \/ Len(e) = Len(ops) /\ Cardinality({j \in 1..Len(ops) : e[j] # ops[j]}) = 1
        \/ Len(e) = Len(ops) + 1 /\ SubSeq(e, 1, Len(ops)) = ops }

InitGestao ==
    /\ rev = "app_2"
    /\ pc = "inicio"
    /\ data = 0
    /\ df_ops = <<>>
    /\ controle = <<>>
    /\ vendas_realizadas = <<>>
    /\ loc = LocInicial
    /\ df_pos = {}
    /\ df_res = <<>>
    /\ mes = 0
    /\ prejuizos = PrejuizosIniciais
    /\ res_mensal = <<>>
    /\ form = SemSubmissao
    /\ InitCache

\* the script runs from the top: calcular_tudo() calls carregar_dados()
ExecutaScript ==
    /\ pc = "inicio"
    /\ pc' = "pagina"
    /\ LET c == CarregarDados(cache, banco)
       IN  /\ dados' = c.retorno
           /\ cache' = c.cache
    /\ UNCHANGED <<banco, backups, escritas>>
    /\ UNCHANGED <<rev, data, df_ops, controle, vendas_realizadas, loc, df_pos>>
    /\ UNCHANGED <<ir_vars, form>>

\* ttl=30: the entry of the cache expires
Expira ==
    /\ cache # <<>>
    /\ cache' = <<>>
    /\ UNCHANGED <<banco, backups, dados, escritas>>
    /\ UNCHANGED tudo_vars
    /\ UNCHANGED <<ir_vars, form>>

\* an interaction that writes nothing (another page, a rejected form)
Navega ==
    /\ pc = "pagina"
    /\ pc' = "inicio"
    /\ UNCHANGED cache_vars
    /\ UNCHANGED <<rev, data, df_ops, controle, vendas_realizadas, loc, df_pos>>
    /\ UNCHANGED <<ir_vars, form>>

\* form_operacao accepted: INSERT INTO operacoes, commit, clear, rerun
FormOperacao ==
    /\ pc = "pagina" /\ escritas < MaxEscritas
    /\ pc' = "inicio"
    /\ \E linha \in LinhasOperacoes :
          banco' = [banco EXCEPT !.operacoes = Append(@, linha)]
    /\ cache' = CarregarDadosClear
    /\ escritas' = escritas + 1
    /\ UNCHANGED <<backups, dados>>
    /\ UNCHANGED <<rev, data, df_ops, controle, vendas_realizadas, loc, df_pos>>
    /\ UNCHANGED <<ir_vars, form>>

\* form_provento: INSERT INTO proventos, commit, clear, rerun
FormProvento ==
    /\ pc = "pagina" /\ escritas < MaxEscritas
    /\ pc' = "inicio"
    /\ banco' = [banco EXCEPT !.proventos = Append(@, 1)]
    /\ cache' = CarregarDadosClear
    /\ escritas' = escritas + 1
    /\ UNCHANGED <<backups, dados>>
    /\ UNCHANGED <<rev, data, df_ops, controle, vendas_realizadas, loc, df_pos>>
    /\ UNCHANGED <<ir_vars, form>>

\* "Gerar PDF da DARF" with the PDF written: salvar_darf_bd inserts the record,
\* or fails and inserts nothing; the cache is cleared in both cases
BotaoGerarDarf ==
    /\ pc = "pagina" /\ escritas < MaxEscritas
    /\ dados.operacoes # <<>>
    /\ pc' = "inicio"
    /\ \E salvo \in BOOLEAN :
          banco' = IF salvo THEN [banco EXCEPT !.darfs = Append(@, 1)] ELSE banco
    /\ cache' = CarregarDadosClear
    /\ escritas' = escritas + 1
    /\ UNCHANGED <<backups, dados>>
    /\ UNCHANGED <<rev, data, df_ops, controle, vendas_realizadas, loc, df_pos>>
    /\ UNCHANGED <<ir_vars, form>>

\* "Salvar Alterações" of the editor: DELETE FROM operacoes, to_sql, commit, clear, rerun
SalvarEditor ==
    /\ pc = "pagina" /\ escritas < MaxEscritas
    /\ dados.operacoes # <<>>
    /\ pc' = "inicio"
    /\ \E edited_ops \in EdicoesCache(dados.operacoes) :
          banco' = [banco EXCEPT !.operacoes = edited_ops]
    /\ cache' = CarregarDadosClear
    /\ escritas' = escritas + 1
    /\ UNCHANGED <<backups, dados>>
    /\ UNCHANGED <<rev, data, df_ops, controle, vendas_realizadas, loc, df_pos>>
    /\ UNCHANGED <<ir_vars, form>>

\* fazer_backup: the database file is copied into the directory backups
FazerBackup ==
    /\ pc = "pagina" /\ escritas < MaxEscritas
    /\ pc' = "inicio"
    /\ backups' = backups \cup {banco}
    /\ escritas' = escritas + 1
    /\ UNCHANGED <<banco, cache, dados>>
    /\ UNCHANGED <<rev, data, df_ops, controle, vendas_realizadas, loc, df_pos>>
    /\ UNCHANGED <<ir_vars, form>>

\* "Restaurar Backup": restaurar_backup copies the file back, then clear and rerun
RestaurarBackup ==
    /\ pc = "pagina" /\ escritas < MaxEscritas
    /\ pc' = "inicio"
    /\ \E backup_escolhido \in backups : banco' = backup_escolhido
    /\ cache' = CarregarDadosClear
    /\ escritas' = escritas + 1
    /\ UNCHANGED <<backups, dados>>
    /\ UNCHANGED <<rev, data, df_ops, controle, vendas_realizadas, loc, df_pos>>
    /\ UNCHANGED <<ir_vars, form>>

\* "Limpar Todas Operações": with the confirmation, DELETE FROM operacoes, commit,
\* clear, rerun; without it nothing
LimparOperacoes ==
    /\ pc = "pagina" /\ escritas < MaxEscritas
    /\ pc' = "inicio"
    /\ \E confirmo \in BOOLEAN :
          /\ banco' = IF confirmo THEN [banco EXCEPT !.operacoes = <<>>] ELSE banco
          /\ cache' = IF confirmo THEN CarregarDadosClear ELSE cache
    /\ escritas' = escritas + 1
    /\ UNCHANGED <<backups, dados>>
    /\ UNCHANGED <<rev, data, df_ops, controle, vendas_realizadas, loc, df_pos>>
    /\ UNCHANGED <<ir_vars, form>>

\* "Limpar Todos Proventos": the same on the table proventos
LimparProventos ==
    /\ pc = "pagina" /\ escritas < MaxEscritas
    /\ pc' = "inicio"
    /\ \E confirmo \in BOOLEAN :
          /\ banco' = IF confirmo THEN [banco EXCEPT !.proventos = <<>>] ELSE banco
          /\ cache' = IF confirmo THEN CarregarDadosClear ELSE cache
    /\ escritas' = escritas + 1
    /\ UNCHANGED <<backups, dados>>
    /\ UNCHANGED <<rev, data, df_ops, controle, vendas_realizadas, loc, df_pos>>
    /\ UNCHANGED <<ir_vars, form>>

NextGestao ==
    \/ ExecutaScript \/ Expira \/ Navega
    \/ FormOperacao \/ FormProvento \/ BotaoGerarDarf \/ SalvarEditor
    \/ FazerBackup \/ RestaurarBackup \/ LimparOperacoes \/ LimparProventos

SpecGestao == InitGestao /\ [][NextGestao]_vars

(* C21: every action that writes the database (insert of an operation, of  *)
(* a dividend, of a DARF record, save of the editor, restore of a backup,  *)
(* delete-all of operations or dividends) clears the cache of              *)
(* carregar_dados after the commit and before the next recompute: a step   *)
(* that changes the database leaves the cache empty, and what calcular_tudo *)
(* loads at the top of a run is the database as it is then.                *)
C21_CacheLimpoAposEscrita ==
    [][ /\ banco' # banco => cache' = <<>>
        /\ (pc = "inicio" /\ pc' = "pagina") => dados' = banco' ]_vars

\* a run of the script after three writes, one to each table, loaded anew
C21_Witness ==
    /\ pc = "pagina" /\ escritas = 3
    /\ banco.operacoes # <<>> /\ banco.proventos # <<>> /\ banco.darfs # <<>>
    /\ dados = banco /\ cache = <<banco>>

(***************************************************************************)
(* The register form of app_2.py with trade dates: every submission is     *)
(* checked against the table as a whole, and the script, run again, has    *)
(* calcular_tudo process the table date by date.                           *)
(***************************************************************************)
\* submissions of the form for PETR4, dated today or the day before
SubmissoesDatadas ==
    { [texto |-> TextoPETR4, tipo |-> tp, quantidade |-> q, valor |-> 10, dia |-> d]
      : tp \in Tipos, q \in Quantidades, d \in {Hoje - 1, Hoje} }

\* "Salvar Operação" and the run of the script that follows an accepted submission
RegistraOperacao ==
    /\ pc = "ui" /\ rev = "app_2"
    /\ Len(df_ops) < MaxOps
    /\ \E s \in SubmissoesDatadas :
          LET ticket_final == Strip(Upper(s.texto))
              erros == ValidarOperacao(ticket_final, s.tipo, s.quantidade, s.valor, s.dia)
              check == IF erros = <<>> /\ s.tipo = "Venda"
                       THEN <<VerificarVendaDescoberto(ticket_final, s.quantidade, df_ops)>>
                       ELSE <<>>
              aceita == erros = <<>> /\ (check = <<>> \/ ~check[1].descoberto)
              ops == IF aceita THEN Append(df_ops, LinhaForm(ticket_final, s)) ELSE df_ops
              saida == CalcularTudo(rev, ops)
          IN  /\ form' = [via |-> "form_operacao", entrada |-> s, erros |-> erros,
                          check |-> check]
              /\ df_ops' = ops
              /\ data' = IF ops = <<>> THEN 0 ELSE Hoje
              /\ controle' = saida.controle
              /\ vendas_realizadas' = saida.vendas_realizadas
              /\ loc' = saida.loc
              /\ df_pos' = saida.df_pos
    /\ UNCHANGED <<rev, pc, ir_vars>>
    /\ UNCHANGED cache_vars

NextRegistro == RegistraOperacao

SpecRegistro == InitEscrita /\ [][NextRegistro]_vars

(* C26: when every Sell of the table was entered through the register form *)
(* of app_2.py and passed its short-sale check when it was entered (any    *)
(* order of entry, any trade dates, no later edit), then as calcular_tudo  *)
(* processes the days in ascending order no ledger quantity is negative    *)
(* after any day.                                                          *)
C26_SaldoNuncaNegativo ==
    rev = "app_2" =>
        \A i \in DOMAIN df_ops :
            LET ate == CalcularTudo(rev, TabelaAte(df_ops, df_ops[i].data)).controle
            IN  \A tkt \in DOMAIN ate : ate[tkt].qtd >= 0

=============================================================================
